---------------------------- MODULE Spec2Model ----------------------------
(***************************************************************************)
(* Claims adjudication pipeline of the Laya Healthcare claims chatbot:     *)
(* setup -> parallel validation (intake || eligibility) -> principal       *)
(* router -> outpatient | hospital | exceptions -> decision node, plus the *)
(* developer review endpoint that applies deferred usage updates.          *)
(*                                                                         *)
(* Amounts are integers in thousandths of a euro (20.00 EUR = 20000).      *)
(* Dates are day numbers; NoDate is the empty string, BadDate a string     *)
(* that strptime("%Y-%m-%d") rejects.                                      *)
(***************************************************************************)
EXTENDS Integers, Sequences, FiniteSets, TLC

VARIABLES
    usage,            \* _members[MEM]["current_year_usage"]
    claims_history,   \* _members[MEM]["claims_history"]
    clock,            \* datetime.now() in whole seconds (source of claim ids)
    last,             \* response of the most recent handler call
    session,          \* _sessions[sid] of the one session that is followed
    activity_log,     \* _activity_log
    inflight          \* requests that are suspended at an await

vars == <<usage, claims_history, clock, last, session, activity_log, inflight>>

-----------------------------------------------------------------------------
(* Bounds of the model *)

MaxClaims == 2        \* pipeline runs that record a claim
MaxClock  == 1        \* distinct clock seconds observed
MaxTurns == 3         \* calls made in the followed session
MaxHistoryTurns == 27 \* calls made in the long session
MaxActivities == 3    \* activities logged after the initial log
MaxRequests == 2      \* requests in flight at the same time

-----------------------------------------------------------------------------
(* Program constants *)

Today == 1000                   \* datetime.now(), as a day number
WaitingPeriodDays == 84         \* timedelta(weeks=12)
SubmissionWindowDays == 365
Threshold == 150000             \* 150.00
DupTolerance == 10              \* 0.01
MaxHospitalDays == 40
HospitalRate == 20000           \* 20.00 per day
PrivateInvoiceLimit == 1000000  \* 1000
MaternityPayout == 200000       \* 200.00 flat
StdCap == 20000                 \* 20.00
PrescriptionCap == 10000        \* 10.00
StdMaxCount == 10
PrescriptionMaxCount == 4

NoDate == 0
BadDate == 0 - 1

KnownMember == "MEM-1004"
UnknownMember == "MEM-9999"

-----------------------------------------------------------------------------
(* Small helpers *)

Min(a, b) == IF a <= b THEN a ELSE b
Max(a, b) == IF a >= b THEN a ELSE b
Abs(a) == IF a >= 0 THEN a ELSE 0 - a
Contains(seq, x) == \E i \in 1..Len(seq) : seq[i] = x

\* str.lower() on the practitioner names the model uses
Lower(name) ==
    CASE name = "Dr. John Doe" -> "dr. john doe"
      [] name = "DR. JOHN DOE" -> "dr. john doe"
      [] name = "Physiotherapy Plus" -> "physiotherapy plus"
      [] name = "Reiki Healing" -> "reiki healing"
      [] name = "Beacon Hospital" -> "beacon hospital"
      [] name = "Not specified" -> "not specified"
      [] OTHER -> ""

\* validate_therapy_type: some allowed therapy is a substring of the name
\* or the name a substring of it
validate_therapy_type(name) ==
    Lower(name) \in {"physiotherapy plus", ""}

-----------------------------------------------------------------------------
(* Documents and messages *)

FormOutpatient == "Money Smart Out-patient Claim Form"
FormGP == "General Practitioner Claim Form"
FormNatal == "Pre/Post-Natal Claim Form"

TGP == "GP & A&E"
TConsultant == "Consultant Fee"
TPrescription == "Prescription"
TDental == "Dental & Optical"
TTherapy == "Day to Day Therapy"
TScan == "Scan Cover"
THospital == "Hospital In-patient"
TMaternity == "Maternity / Adoption Cash Back"

\* extracted_doc == {} (no document supplied)
EmptyDoc ==
    [present |-> FALSE, form_type |-> "", treatment_type |-> "",
     treatment_date |-> NoDate, practitioner_name |-> "", total_cost |-> 0,
     signature_present |-> TRUE, procedure_code |-> 0,
     clinical_indicator |-> "", hospital_days |-> 0, is_accident |-> FALSE,
     solicitor_involved |-> FALSE, histology_report_attached |-> FALSE,
     serum_ferritin_provided |-> FALSE]

\* ExtractedDocumentData.model_dump() with the schema defaults
MkDoc(tt, date, pract, cost) ==
    [EmptyDoc EXCEPT !.present = TRUE, !.form_type = FormOutpatient,
                     !.treatment_type = tt, !.treatment_date = date,
                     !.practitioner_name = pract, !.total_cost = cost]

\* A user message, by what the parsers and keyword scans find in it
MkMsg(tt, cost, days, exc, hosp) ==
    [ttype |-> tt, cost |-> cost, date |-> Today, practitioner |-> "",
     days |-> days, excKw |-> exc, hospKw |-> hosp]

\* The same message as is_follow_up sees it: phrased as a question (a
\* question starter or a final "?"), matching a new-claim pattern, its
\* number of words, and the number of follow-up patterns it matches
Phrased(msg, question, new_claim, words, score) ==
    [ttype |-> msg.ttype, cost |-> msg.cost, date |-> msg.date,
     practitioner |-> msg.practitioner, days |-> msg.days,
     excKw |-> msg.excKw, hospKw |-> msg.hospKw,
     question |-> question, new_claim |-> new_claim, words |-> words,
     score |-> score]

\* "Please process the attached receipt"
MsgPlain == Phrased(MkMsg("", 0, 0, FALSE, FALSE), TRUE, FALSE, 5, 1)
\* "This receipt is for an accident injury"
MsgAccident == Phrased(MkMsg("", 0, 0, TRUE, FALSE), FALSE, FALSE, 7, 1)
\* "I visited my gp, it cost 60 euro"
MsgGP == Phrased(MkMsg(TGP, 60000, 0, FALSE, FALSE), FALSE, TRUE, 8, 0)
\* "I had a 5 day hospital stay"
MsgHospStay == Phrased(MkMsg(THospital, 0, 5, FALSE, TRUE), FALSE, TRUE, 7, 0)
\* "maternity cash back for my newborn"
MsgMaternity == Phrased(MkMsg(TMaternity, 0, 0, TRUE, FALSE), FALSE, FALSE, 6, 0)

infer_treatment_type(msg) == msg.ttype
infer_total_cost(msg) == msg.cost
infer_treatment_date(msg) == msg.date
infer_practitioner(msg) == msg.practitioner
infer_hospital_days(msg) == msg.days

DefaultCost(tt) ==
    CASE tt = TGP -> 60000
      [] tt = TConsultant -> 75000
      [] tt = TPrescription -> 25000
      [] tt = TTherapy -> 50000
      [] tt = TDental -> 45000
      [] tt = TScan -> 150000
      [] tt = THospital -> 100000
      [] tt = TMaternity -> 1500000
      [] OTHER -> 50000

\* dict.setdefault on a document: keys exist in a schema dump, not in {}
build_extracted_doc_from_message(msg, doc) ==
    IF doc.treatment_type # "" THEN doc
    ELSE IF infer_treatment_type(msg) = "" THEN doc
    ELSE
      LET tt == infer_treatment_type(msg)
          base ==
            IF doc.present
            THEN [doc EXCEPT !.treatment_type = tt]
            ELSE [EmptyDoc EXCEPT
                    !.present = TRUE,
                    !.treatment_type = tt,
                    !.form_type = FormOutpatient,
                    !.treatment_date = infer_treatment_date(msg),
                    !.signature_present = TRUE,
                    !.total_cost = IF infer_total_cost(msg) > 0
                                   THEN infer_total_cost(msg)
                                   ELSE DefaultCost(tt),
                    !.practitioner_name = IF infer_practitioner(msg) # ""
                                          THEN infer_practitioner(msg)
                                          ELSE "Not specified"]
      IN IF infer_hospital_days(msg) # 0
         THEN [base EXCEPT !.hospital_days = infer_hospital_days(msg)]
         ELSE base

-----------------------------------------------------------------------------
(* Request-scoped pipeline state (ClaimState) *)

\* policy_start_date of the member, as a day number: long enough ago that a
\* treatment after the waiting period can be older than the submission window
PolicyStart == 100

\* user_context.get("role", "customer") if user_context else "customer";
\* role "" stands for a request without user_context
UserRole(role) == IF role = "" THEN "customer" ELSE role

EmptyUsage ==
    [q_accumulated_receipts |-> 0, gp_visits_count |-> 0,
     prescription_count |-> 0, dental_optical_count |-> 0,
     therapy_count |-> 0, scan_count |-> 0, consultant_visits_count |-> 0,
     hospital_days_count |-> 0, maternity_claimed |-> FALSE]

\* initial_state built by process_claim; member_data == {} reads as defaults
InitialState(member_id, msg, doc, role) ==
    [member_id |-> member_id, found |-> FALSE, member_usage |-> EmptyUsage,
     policy_start |-> NoDate, extracted_doc |-> doc, user_message |-> msg,
     role |-> role, route |-> "", decision |-> "", payout_amount |-> 0,
     flags |-> <<>>, needs_info |-> <<>>, nodes |-> <<>>, branch |-> "",
     eligibility_failure |-> ""]

\* get_member_by_id + setup_node: snapshot of the member, enriched document
setup_node(st, store_usage) ==
    IF st.member_id # KnownMember
    THEN [st EXCEPT !.decision = "REJECTED", !.payout_amount = 0,
                    !.nodes = Append(@, "setup")]
    ELSE LET enriched == build_extracted_doc_from_message(st.user_message,
                                                           st.extracted_doc)
             doc == IF st.extracted_doc.treatment_type = ""
                       /\ enriched.treatment_type # ""
                    THEN enriched ELSE st.extracted_doc
         IN [st EXCEPT !.found = TRUE, !.member_usage = store_usage,
                       !.policy_start = PolicyStart, !.extracted_doc = doc,
                       !.nodes = Append(@, "setup")]

route_after_setup(st) ==
    IF st.decision = "REJECTED" THEN "decision_node"
    ELSE "parallel_validation_node"

-----------------------------------------------------------------------------
(* Validation stage *)

intake_node(st) ==
    LET doc == st.extracted_doc
        wrong_form == doc.form_type = FormGP
                      /\ doc.treatment_type \in {TGP, TConsultant}
    IN IF ~doc.present
       THEN [decision |-> "ACTION REQUIRED",
             needs_info |-> <<"Claim form or receipt document">>]
       ELSE IF ~doc.signature_present
       THEN [decision |-> "ACTION REQUIRED",
             needs_info |-> <<"Signed claim form">>]
       ELSE IF wrong_form
       THEN [decision |-> "ACTION REQUIRED",
             needs_info |-> <<"Correct claim form (Money Smart Out-patient Claim Form)">>]
       ELSE [decision |-> "", needs_info |-> <<>>]

\* a waiting period that still covers its last day
check_waiting_period_inclusive(policy_start_date, treatment_date) ==
    IF policy_start_date <= 0 \/ treatment_date <= 0 THEN FALSE
    ELSE treatment_date <= policy_start_date + WaitingPeriodDays

\* strptime fails on "" and on malformed text; the tool then returns
\* {"error": ...}, which has no is_within_waiting_period key
check_waiting_period(policy_start_date, treatment_date) ==
    IF policy_start_date <= 0 \/ treatment_date <= 0 THEN FALSE
    ELSE treatment_date < policy_start_date + WaitingPeriodDays

\* today = datetime.now() carries the time of day, deadline is a midnight
check_submission_deadline(treatment_date, tod) ==
    IF treatment_date <= 0 THEN FALSE
    ELSE \/ Today > treatment_date + SubmissionWindowDays
         \/ (Today = treatment_date + SubmissionWindowDays /\ tod > 0)

\* a comparison that leaves a total of exactly 150.00 below the threshold
check_quarterly_threshold_strict(current_accumulated, new_amount) ==
    current_accumulated + new_amount > Threshold

check_quarterly_threshold(current_accumulated, new_amount) ==
    current_accumulated + new_amount >= Threshold

IsDuplicateOf(claim, treatment_date, practitioner_name, claimed_amount) ==
    /\ claim.treatment_date = treatment_date
    /\ Lower(claim.practitioner_name) = Lower(practitioner_name)
    /\ Abs(claim.claimed_amount - claimed_amount) < DupTolerance

check_existing_claim(history, treatment_date, practitioner_name, claimed_amount) ==
    \E i \in 1..Len(history) :
       IsDuplicateOf(history[i], treatment_date, practitioner_name, claimed_amount)

eligibility_node(st, history, tod) ==
    LET doc == st.extracted_doc
        treatment_date == IF doc.treatment_date = NoDate THEN Today
                          ELSE doc.treatment_date
        accumulated == st.member_usage.q_accumulated_receipts
        threshold_crossed == check_quarterly_threshold(accumulated, doc.total_cost)
    IN IF check_waiting_period(st.policy_start, treatment_date)
       THEN [decision |-> "REJECTED", flags |-> <<>>, reason |-> "waiting"]
       ELSE IF check_submission_deadline(treatment_date, tod)
       THEN [decision |-> "REJECTED", flags |-> <<>>, reason |-> "deadline"]
       ELSE IF check_existing_claim(history, treatment_date,
                                    doc.practitioner_name, doc.total_cost)
       THEN [decision |-> "REJECTED", flags |-> <<"DUPLICATE">>,
             reason |-> "duplicate"]
       ELSE [decision |-> "",
             flags |-> IF threshold_crossed THEN <<>>
                       ELSE <<"PENDING_THRESHOLD">>,
             reason |-> ""]

\* a merge in which an Eligibility rejection wins over an Intake failure
parallel_validation_node_eligibility_first(st, history, tod) ==
    LET intake_result == intake_node(st)
        eligibility_result == eligibility_node(st, history, tod)
        st0 == [st EXCEPT !.nodes = Append(@, "validation"),
                          !.eligibility_failure = eligibility_result.reason]
    IN IF eligibility_result.decision = "REJECTED"
       THEN [st0 EXCEPT !.decision = "REJECTED", !.payout_amount = 0]
       ELSE IF intake_result.decision \in {"ACTION REQUIRED", "REJECTED"}
       THEN [st0 EXCEPT !.decision = intake_result.decision,
                        !.payout_amount = 0,
                        !.needs_info = @ \o intake_result.needs_info]
       ELSE [st0 EXCEPT !.flags = @ \o eligibility_result.flags]

\* merge of the two gathered results; flags and needs_info are reducer
\* (operator.add) channels, decision and payout are overwritten when set
parallel_validation_node(st, history, tod) ==
    LET intake_result == intake_node(st)
        eligibility_result == eligibility_node(st, history, tod)
        \* the trace keeps Eligibility's FAILED line whatever the merge does
        st0 == [st EXCEPT !.nodes = Append(@, "validation"),
                          !.eligibility_failure = eligibility_result.reason]
    IN IF intake_result.decision \in {"ACTION REQUIRED", "REJECTED"}
       THEN [st0 EXCEPT !.decision = intake_result.decision,
                        !.payout_amount = 0,
                        !.needs_info = @ \o intake_result.needs_info]
       ELSE IF eligibility_result.decision = "REJECTED"
       THEN [st0 EXCEPT !.decision = "REJECTED", !.payout_amount = 0]
       ELSE [st0 EXCEPT !.flags = @ \o eligibility_result.flags]

\* an edge that sends every validated or failed run on to routing
route_after_parallel_validation_always_on(st) == "principal_node"

route_after_parallel_validation(st) ==
    IF st.decision \in {"ACTION REQUIRED", "REJECTED"} THEN "decision_node"
    ELSE "principal_node"

-----------------------------------------------------------------------------
(* Routing stage *)

\* keyword scan over "treatment_type form_type user_message", lower-cased
deterministic_route(doc, msg) ==
    IF doc.treatment_type = TMaternity \/ doc.form_type = FormNatal \/ msg.excKw
    THEN "exceptions"
    ELSE IF doc.treatment_type = THospital \/ msg.hospKw
    THEN "hospital"
    ELSE IF doc.hospital_days # 0 \/ doc.procedure_code # 0
    THEN "hospital"
    ELSE "outpatient"

\* llm: "none" (no API key, or the call failed), or the route it answered
principal_node(st, llm) ==
    LET route == IF llm = "none"
                 THEN deterministic_route(st.extracted_doc, st.user_message)
                 ELSE llm
    IN [st EXCEPT !.route = IF route \in {"outpatient", "hospital", "exceptions"}
                            THEN route ELSE "outpatient",
                  !.nodes = Append(@, "principal")]

\* an edge function that answers with the route, which names no node
route_after_principal_unmapped(st) == st.route

route_after_principal(st) ==
    CASE st.route = "hospital" -> "hospital_node"
      [] st.route = "exceptions" -> "exceptions_node"
      [] OTHER -> "outpatient_node"

-----------------------------------------------------------------------------
(* Treatment processors: each returns decision, payout, flags, needs_info *)

\* branch names the processor line written to the trace
Outcome(branch, decision, payout, flags, needs) ==
    [branch |-> branch, decision |-> decision, payout_amount |-> payout,
     flags |-> flags, needs_info |-> needs]

\* a limit that still admits a claim when the count equals the maximum
check_annual_limit_strict(current_count, max_count) == current_count > max_count

check_annual_limit(current_count, max_count) == current_count >= max_count

\* _process_gp_consultant, _process_prescription, _process_dental_optical,
\* _process_scan: count check, then min(total_cost, cap)
ProcessCountedUncapped(branch, current_count, max_count, payout_cap, total_cost) ==
    IF check_annual_limit(current_count, max_count)
    THEN Outcome(branch, "REJECTED", 0, <<>>, <<>>)
    ELSE Outcome(branch, "APPROVED", total_cost, <<>>, <<>>)

ProcessCounted(branch, current_count, max_count, payout_cap, total_cost) ==
    IF check_annual_limit(current_count, max_count)
    THEN Outcome(branch, "REJECTED", 0, <<>>, <<>>)
    ELSE Outcome(branch, "APPROVED", Min(total_cost, payout_cap), <<>>, <<>>)

\* _process_therapy: count check first, then the allow-list
ProcessTherapy(u, total_cost, practitioner) ==
    IF u.therapy_count >= StdMaxCount
    THEN Outcome("Therapy", "REJECTED", 0, <<>>, <<>>)
    ELSE IF ~validate_therapy_type(practitioner)
    THEN Outcome("Therapy", "REJECTED", 0, <<>>, <<>>)
    ELSE Outcome("Therapy", "APPROVED", Min(total_cost, StdCap), <<>>, <<>>)

outpatient_node(st) ==
    LET doc == st.extracted_doc
        u == st.member_usage
        treatment_type == IF doc.treatment_type = ""
                          THEN infer_treatment_type(st.user_message)
                          ELSE doc.treatment_type
        cost == doc.total_cost
    IN CASE treatment_type = TGP ->
              ProcessCounted("GP", u.gp_visits_count, StdMaxCount, StdCap, cost)
         [] treatment_type = TConsultant ->
              ProcessCounted("Consultant", u.consultant_visits_count, StdMaxCount, StdCap, cost)
         [] treatment_type = TPrescription ->
              ProcessCounted("Pharmacy", u.prescription_count, PrescriptionMaxCount,
                             PrescriptionCap, cost)
         [] treatment_type = TTherapy ->
              ProcessTherapy(u, cost, doc.practitioner_name)
         [] treatment_type = TDental ->
              ProcessCounted("Dental/Optical", u.dental_optical_count, StdMaxCount, StdCap, cost)
         [] treatment_type = TScan ->
              ProcessCounted("Scan", u.scan_count, StdMaxCount, StdCap, cost)
         [] OTHER -> Outcome("Unknown", "ACTION REQUIRED", 0, <<>>, <<>>)

\* a calculator that approves every requested day
calculate_hospital_payout_uncapped(days_requested, days_used) ==
    [approved_days |-> days_requested,
     rejected_days |-> 0,
     payout |-> days_requested * HospitalRate]

calculate_hospital_payout(days_requested, days_used) ==
    LET days_available == Max(0, MaxHospitalDays - days_used)
        approved_days == Min(days_requested, days_available)
    IN [approved_days |-> approved_days,
        rejected_days |-> days_requested - approved_days,
        payout |-> approved_days * HospitalRate]

ProcessHospitalDays(hospital_days, u) ==
    LET result == calculate_hospital_payout(hospital_days, u.hospital_days_count)
    IN IF result.approved_days = 0
       THEN Outcome("In-Patient", "REJECTED", 0, <<>>, <<>>)
       ELSE IF result.rejected_days > 0
       THEN Outcome("In-Patient", "PARTIALLY APPROVED", result.payout, <<>>, <<>>)
       ELSE Outcome("In-Patient", "APPROVED", result.payout, <<>>, <<>>)

\* _validate_procedure_code: "" when the code raises no objection
ProcedureCodeNeeds(doc) ==
    IF doc.procedure_code = 29 /\ ~doc.histology_report_attached
    THEN "Histology Report"
    ELSE IF doc.procedure_code = 16 /\ doc.clinical_indicator = "0222"
            /\ ~doc.serum_ferritin_provided
    THEN "Initial serum ferritin levels"
    ELSE ""

hospital_node(st) ==
    LET doc == st.extracted_doc
    IN IF doc.total_cost > PrivateInvoiceLimit /\ doc.treatment_type # THospital
       THEN Outcome("Private invoice", "REJECTED", 0, <<>>, <<>>)
       ELSE IF doc.procedure_code # 0 /\ ProcedureCodeNeeds(doc) # ""
       THEN Outcome("Procedure code", "REJECTED", 0, <<>>,
                    <<ProcedureCodeNeeds(doc)>>)
       ELSE IF doc.hospital_days > 0
       THEN ProcessHospitalDays(doc.hospital_days, st.member_usage)
       ELSE Outcome("Day-case", "APPROVED", Min(doc.total_cost, StdCap), <<>>, <<>>)

ProcessMaternity(u) ==
    IF u.maternity_claimed
    THEN Outcome("Maternity", "REJECTED", 0, <<>>, <<>>)
    ELSE Outcome("Maternity", "APPROVED", MaternityPayout,
                 <<"MATERNITY_DB_UPDATE">>, <<>>)

ProcessThirdParty(doc) ==
    Outcome("Third-Party", "APPROVED", Min(doc.total_cost, StdCap),
            <<"LEGAL_REVIEW">>, <<>>)

\* _check_duplicate compares the raw document date (no default to today)
CheckDuplicate(doc, history) ==
    IF check_existing_claim(history, doc.treatment_date,
                            doc.practitioner_name, doc.total_cost)
    THEN Outcome("Duplicate", "REJECTED", 0, <<"DUPLICATE">>, <<>>)
    ELSE Outcome("Duplicate", "APPROVED", Min(doc.total_cost, StdCap), <<>>, <<>>)

exceptions_node(st, history) ==
    LET doc == st.extracted_doc
    IN IF doc.form_type = FormNatal \/ doc.treatment_type = TMaternity
       THEN ProcessMaternity(st.member_usage)
       ELSE IF doc.is_accident \/ doc.solicitor_involved
       THEN ProcessThirdParty(doc)
       ELSE CheckDuplicate(doc, history)

\* a processor's partial update merged into the state
ApplyOutcome(st, out, node) ==
    [st EXCEPT !.decision = out.decision, !.payout_amount = out.payout_amount,
               !.flags = @ \o out.flags, !.needs_info = @ \o out.needs_info,
               !.nodes = Append(@, node), !.branch = out.branch]

processor_node(st, history) ==
    CASE route_after_principal(st) = "hospital_node" ->
            ApplyOutcome(st, hospital_node(st), "hospital")
      [] route_after_principal(st) = "exceptions_node" ->
            ApplyOutcome(st, exceptions_node(st, history), "exceptions")
      [] OTHER -> ApplyOutcome(st, outpatient_node(st), "outpatient")

\* the graph from the entry point up to (not including) decision_node
RunToDecision(st0, store_usage, history, llm, tod) ==
    LET s1 == setup_node(st0, store_usage)
    IN IF route_after_setup(s1) = "decision_node" THEN s1
       ELSE LET s2 == parallel_validation_node(s1, history, tod)
            IN IF route_after_parallel_validation(s2) = "decision_node" THEN s2
               ELSE processor_node(principal_node(s2, llm), history)

-----------------------------------------------------------------------------
(* Usage ledger and claim store *)

\* a ledger write that subtracts the increment instead of adding it
update_usage_subtract(u, field, increment) ==
    IF field \in DOMAIN u THEN [u EXCEPT ![field] = @ - increment] ELSE u

\* update_usage: named-field increment; False (no change) on an unknown field
update_usage(u, field, increment) ==
    IF field \in DOMAIN u THEN [u EXCEPT ![field] = @ + increment] ELSE u

RECURSIVE ApplyUpdates(_, _)
ApplyUpdates(u, updates) ==
    IF updates = <<>> THEN u
    ELSE ApplyUpdates(update_usage(u, Head(updates).field, Head(updates).increment),
                      Tail(updates))

\* index of the first claim carrying the id, 0 when there is none
FindClaim(history, claim_id) ==
    IF \E i \in 1..Len(history) : history[i].claim_id = claim_id
    THEN CHOOSE i \in 1..Len(history) :
            /\ history[i].claim_id = claim_id
            /\ \A j \in 1..(i - 1) : history[j].claim_id # claim_id
    ELSE 0

-----------------------------------------------------------------------------
(* Decision node *)

UsageField(treatment_type) ==
    CASE treatment_type = TGP -> "gp_visits_count"
      [] treatment_type = TConsultant -> "consultant_visits_count"
      [] treatment_type = TPrescription -> "prescription_count"
      [] treatment_type = TDental -> "dental_optical_count"
      [] treatment_type = TTherapy -> "therapy_count"
      [] treatment_type = TScan -> "scan_count"
      [] OTHER -> ""

Upd(field, increment) == [field |-> field, increment |-> increment]

\* deferred_usage_updates built from the AI decision and the document
BuildUpdates(ai_decision, doc, snapshot) ==
    IF ai_decision \notin {"APPROVED", "PARTIALLY APPROVED"} THEN <<>>
    ELSE
      LET counter == IF UsageField(doc.treatment_type) # ""
                     THEN <<Upd(UsageField(doc.treatment_type), 1)>> ELSE <<>>
          approved_days ==
             IF ai_decision = "PARTIALLY APPROVED"
             THEN Min(doc.hospital_days,
                      MaxHospitalDays - snapshot.hospital_days_count)
             ELSE doc.hospital_days
          days == IF doc.hospital_days # 0 /\ doc.treatment_type = THospital
                  THEN <<Upd("hospital_days_count", approved_days)>> ELSE <<>>
          receipts == IF doc.total_cost > 0
                      THEN <<Upd("q_accumulated_receipts", doc.total_cost)>>
                      ELSE <<>>
      IN counter \o days \o receipts

\* a hold that lets rejections through to the customer
CustomerHoldApprovalsOnly(user_role, decision) ==
    user_role = "customer" /\ decision \in {"APPROVED", "PARTIALLY APPROVED"}

\* customer claims with a terminal decision are held for human review
CustomerHold(user_role, decision) ==
    user_role = "customer"
    /\ decision \in {"APPROVED", "REJECTED", "PARTIALLY APPROVED"}

\* a record that files the final status as the recommendation
claim_record_of_final_status(doc, ai_decision, ai_payout, decision, flags, deferred, now) ==
    [claim_id |-> now,
     treatment_type |-> doc.treatment_type,
     treatment_date |-> doc.treatment_date,
     claimed_amount |-> doc.total_cost,
     approved_amount |-> IF ai_decision \in {"APPROVED", "PARTIALLY APPROVED"}
                         THEN ai_payout ELSE 0,
     status |-> decision,
     practitioner_name |-> doc.practitioner_name,
     ai_recommendation |-> decision,
     ai_payout_amount |-> IF decision = "PENDING" THEN 0 ELSE ai_payout,
     ai_flags |-> flags,
     deferred_usage_updates |-> deferred,
     reviewed |-> FALSE]

\* the claim_record dict decision_node appends to the history
claim_record(doc, ai_decision, ai_payout, decision, flags, deferred, now) ==
    [claim_id |-> now,
     treatment_type |-> doc.treatment_type,
     treatment_date |-> doc.treatment_date,
     claimed_amount |-> doc.total_cost,
     approved_amount |-> IF ai_decision \in {"APPROVED", "PARTIALLY APPROVED"}
                         THEN ai_payout ELSE 0,
     status |-> decision,
     practitioner_name |-> doc.practitioner_name,
     ai_recommendation |-> ai_decision,
     ai_payout_amount |-> ai_payout,
     ai_flags |-> flags,
     deferred_usage_updates |-> deferred,
     reviewed |-> FALSE]

\* decision_node: the final decision, the ledger writes and the claim record
decision_node(st, store_usage, history, now) ==
    LET doc == st.extracted_doc
        decision0 == IF st.decision = "" THEN "APPROVED" ELSE st.decision
        payout == IF st.decision = "" THEN 0 ELSE st.payout_amount
        ai_decision == decision0
        decision1 == IF Contains(st.flags, "PENDING_THRESHOLD")
                        /\ decision0 = "APPROVED"
                     THEN "PENDING" ELSE decision0
        user_role == UserRole(st.role)
        updates == BuildUpdates(ai_decision, doc, st.member_usage)
        hold == CustomerHold(user_role, decision1)
        decision == IF hold THEN "PENDING" ELSE decision1
        deferred == IF hold THEN updates ELSE <<>>
        applied == IF hold THEN <<>> ELSE updates
        record == claim_record(doc, ai_decision, payout, decision, st.flags,
                               deferred, now)
        recorded == st.found /\ doc.treatment_type # ""
    IN [usage |-> IF st.found THEN ApplyUpdates(store_usage, applied)
                  ELSE store_usage,
        history |-> IF recorded THEN Append(history, record) ELSE history,
        recorded |-> recorded,
        applied |-> applied,
        decision |-> decision,
        ai_decision |-> ai_decision,
        payout_amount |-> payout,
        flags |-> st.flags,
        needs_info |-> st.needs_info,
        nodes |-> Append(st.nodes, "decision"),
        branch |-> st.branch,
        eligibility_failure |-> st.eligibility_failure,
        extracted_doc |-> doc,
        role |-> user_role]

-----------------------------------------------------------------------------
(* Handler responses *)

\* what the previous call did, when it was a review
NoReview == [claim_id |-> 0, decision |-> "", applied |-> <<>>]

NoCall ==
    [op |-> "none", role |-> "", member_id |-> "", decision |-> "",
     ai_decision |-> "", payout_amount |-> 0, flags |-> <<>>,
     needs_info |-> <<>>, nodes |-> <<>>, branch |-> "", doc |-> EmptyDoc,
     eligibility_failure |-> "", recorded |-> FALSE, applied |-> <<>>,
     claim_id |-> 0, found |-> FALSE, prev_review |-> NoReview,
     limit |-> 0, result |-> <<>>]

Approving == {"APPROVED", "PARTIALLY APPROVED"}

-----------------------------------------------------------------------------
(* Conversation sessions *)

MAX_MESSAGES_PER_SESSION == 50
ShortMessageWords == 8
FollowUpSignals == 2

\* last_claim_context == {} until a pipeline run saves one
NoContext ==
    [saved |-> FALSE, member_id |-> "", extracted_doc |-> EmptyDoc,
     decision |-> "", payout_amount |-> 0, flags |-> <<>>]

\* get_session on an unknown id; appended counts add_message calls and
\* stands for the timestamps, which order the entries by arrival
EmptySession ==
    [messages |-> <<>>, last_claim_context |-> NoContext, appended |-> 0]

\* a history that stops growing at the cap and drops the newest entry
add_message_keeps_oldest(s, role, decision, payout_amount) ==
    LET entry == [role |-> role, decision |-> decision,
                  payout_amount |-> payout_amount,
                  timestamp |-> s.appended + 1]
        all == Append(s.messages, entry)
        n == Len(all)
    IN [s EXCEPT !.messages = IF n > MAX_MESSAGES_PER_SESSION
                              THEN SubSeq(all, 1, MAX_MESSAGES_PER_SESSION)
                              ELSE all,
                 !.appended = @ + 1]

\* add_message: append, then keep the last MAX_MESSAGES_PER_SESSION
add_message(s, role, decision, payout_amount) ==
    LET entry == [role |-> role, decision |-> decision,
                  payout_amount |-> payout_amount,
                  timestamp |-> s.appended + 1]
        all == Append(s.messages, entry)
        n == Len(all)
    IN [s EXCEPT !.messages = IF n > MAX_MESSAGES_PER_SESSION
                              THEN SubSeq(all, n - MAX_MESSAGES_PER_SESSION + 1, n)
                              ELSE all,
                 !.appended = @ + 1]

save_claim_context(s, ctx) == [s EXCEPT !.last_claim_context = ctx]

\* a classifier without the short-message rule
is_follow_up_by_score_only(msg, s) ==
    IF s.messages = <<>> \/ ~s.last_claim_context.saved THEN FALSE
    ELSE IF ~msg.question /\ msg.new_claim THEN FALSE
    ELSE msg.score >= FollowUpSignals

\* a classifier that skips the check for an empty session
is_follow_up_ignores_history(msg, s) ==
    IF ~msg.question /\ msg.new_claim THEN FALSE
    ELSE IF msg.words <= ShortMessageWords THEN TRUE
    ELSE msg.score >= FollowUpSignals

is_follow_up(msg, s) ==
    IF s.messages = <<>> \/ ~s.last_claim_context.saved THEN FALSE
    ELSE IF ~msg.question /\ msg.new_claim THEN FALSE
    ELSE IF msg.words <= ShortMessageWords THEN TRUE
    ELSE msg.score >= FollowUpSignals

-----------------------------------------------------------------------------
(* Operations *)

\* process_claim for a message that is not a follow-up (fresh session):
\* the whole graph, decision_node's store writes included.  now is
\* datetime.now() at decision_node, never earlier than the last reading.
Pipeline(member_id, msg, doc, role, llm, tod, now) ==
    /\ Len(claims_history) < MaxClaims
    /\ now >= clock
    /\ LET st == RunToDecision(InitialState(member_id, msg, doc, role),
                               usage, claims_history, llm, tod)
           d == decision_node(st, usage, claims_history, now)
       IN /\ usage' = d.usage
          /\ claims_history' = d.history
          /\ last' = [NoCall EXCEPT
                        !.op = "process", !.role = d.role,
                        !.member_id = member_id, !.decision = d.decision,
                        !.ai_decision = d.ai_decision,
                        !.payout_amount = d.payout_amount,
                        !.flags = d.flags, !.needs_info = d.needs_info,
                        !.nodes = d.nodes, !.branch = d.branch,
                        !.eligibility_failure = d.eligibility_failure,
                        !.doc = d.extracted_doc, !.recorded = d.recorded,
                        !.applied = d.applied, !.claim_id = now,
                        !.found = st.found]
    /\ clock' = now

\* process_claim without session_id: the session it writes is a new one
\* (uuid4), which no later call reads
ProcessClaim(member_id, msg, doc, role, llm, tod, now) ==
    /\ Pipeline(member_id, msg, doc, role, llm, tod, now)
    /\ UNCHANGED <<session, activity_log, inflight>>

\* decision_node's session writes (graph.py:311-326): the user message,
\* the assistant reply, then the claim context of the run
SaveRun(s, member_id, r) ==
    save_claim_context(
        add_message(add_message(s, "user", "", 0),
                    "assistant", r.decision, r.payout_amount),
        [saved |-> TRUE, member_id |-> member_id, extracted_doc |-> r.doc,
         decision |-> r.decision, payout_amount |-> r.payout_amount,
         flags |-> r.flags])

\* a follow-up that drops the claim context it answered from
handle_follow_up_drops_context(member_id, msg) ==
    LET ctx == session.last_claim_context
    IN /\ session' = save_claim_context(
                         add_message(add_message(session, "user", "", 0),
                                     "assistant", ctx.decision, ctx.payout_amount),
                         NoContext)
       /\ last' = [NoCall EXCEPT !.op = "follow_up", !.member_id = member_id,
                                 !.decision = ctx.decision,
                                 !.payout_amount = ctx.payout_amount,
                                 !.flags = ctx.flags]
       /\ UNCHANGED <<usage, claims_history, clock>>

\* handle_follow_up: two messages appended, the answer built from the
\* last claim context; no store is read or written
handle_follow_up(member_id, msg) ==
    LET ctx == session.last_claim_context
    IN /\ session' = add_message(add_message(session, "user", "", 0),
                                 "assistant", ctx.decision, ctx.payout_amount)
       /\ last' = [NoCall EXCEPT !.op = "follow_up", !.member_id = member_id,
                                 !.decision = ctx.decision,
                                 !.payout_amount = ctx.payout_amount,
                                 !.flags = ctx.flags]
       /\ UNCHANGED <<usage, claims_history, clock>>

\* process_claim with the session_id of the followed session
process_claim(member_id, msg, doc, role, llm, tod, now) ==
    /\ IF is_follow_up(msg, session)
       THEN handle_follow_up(member_id, msg)
       ELSE /\ Pipeline(member_id, msg, doc, role, llm, tod, now)
            /\ session' = SaveRun(session, member_id, last')
    /\ UNCHANGED <<activity_log, inflight>>

\* a review that leaves the deferred list on the record
ClearDeferredSkipped(history, i, deferred_updates) == history

\* update_claim_status(member, claim, {"deferred_usage_updates": []}),
\* called only when the list was not empty
ClearDeferred(history, i, deferred_updates) ==
    IF deferred_updates # <<>>
    THEN [history EXCEPT ![i].deferred_usage_updates = <<>>]
    ELSE history

\* POST /queue/review for the stored member
review_claim(claim_id, decision) ==
    LET i == FindClaim(claims_history, claim_id)
        prev == IF last.op = "review" /\ last.found
                THEN [claim_id |-> last.claim_id, decision |-> last.decision,
                      applied |-> last.applied]
                ELSE NoReview
    IN IF i = 0
       THEN /\ last' = [NoCall EXCEPT !.op = "review", !.claim_id = claim_id,
                                      !.decision = decision, !.found = FALSE,
                                      !.prev_review = prev]
            /\ UNCHANGED <<usage, claims_history, clock, session,
                           activity_log, inflight>>
       ELSE LET claim_found == claims_history[i]
                deferred_updates ==
                    IF decision \in Approving
                    THEN claim_found.deferred_usage_updates ELSE <<>>
                h1 == [claims_history EXCEPT ![i].status = decision,
                                             ![i].reviewed = TRUE]
                h2 == ClearDeferred(h1, i, deferred_updates)
            IN /\ usage' = ApplyUpdates(usage, deferred_updates)
               /\ claims_history' = h2
               /\ last' = [NoCall EXCEPT !.op = "review", !.claim_id = claim_id,
                                         !.decision = decision, !.found = TRUE,
                                         !.applied = deferred_updates,
                                         !.prev_review = prev]
               /\ UNCHANGED <<clock, session, activity_log, inflight>>

-----------------------------------------------------------------------------
(* Requests in flight: a handler runs from one await to the next without
   interruption, all handlers share the one event loop *)

\* a review request whose body has not started (the request is being read)
ReviewRequest(claim_id, decision) ==
    [kind |-> "review", pc |-> "body", claim_id |-> claim_id,
     decision |-> decision, found |-> FALSE, deferred_updates |-> <<>>]

\* review_claim up to its only await: find the claim in a copy of the member,
\* write the status, apply the deferred updates of the copy, clear the list
review_body(u, history, claim_id, decision) ==
    LET i == FindClaim(history, claim_id)
    IN IF i = 0
       THEN [usage |-> u, history |-> history, found |-> FALSE,
             deferred_updates |-> <<>>]
       ELSE LET claim_found == history[i]
                deferred_updates ==
                    IF decision \in Approving
                    THEN claim_found.deferred_usage_updates ELSE <<>>
                h1 == [history EXCEPT ![i].status = decision,
                                      ![i].reviewed = TRUE]
            IN [usage |-> ApplyUpdates(u, deferred_updates),
                history |-> ClearDeferred(h1, i, deferred_updates),
                found |-> TRUE,
                deferred_updates |-> deferred_updates]

\* the body of the i-th request runs; a claim that is not found ends the
\* request with 404, otherwise it suspends at await notify_claim_update
ReviewBody(i) ==
    /\ i \in 1..Len(inflight)
    /\ inflight[i].kind = "review"
    /\ inflight[i].pc = "body"
    /\ LET r == inflight[i]
           b == review_body(usage, claims_history, r.claim_id, r.decision)
       IN /\ usage' = b.usage
          /\ claims_history' = b.history
          /\ inflight' = [inflight EXCEPT
                            ![i].pc = IF b.found THEN "notify" ELSE "done",
                            ![i].found = b.found,
                            ![i].deferred_updates = b.deferred_updates]
          /\ last' = IF b.found THEN last
                     ELSE [NoCall EXCEPT !.op = "review",
                                         !.claim_id = r.claim_id,
                                         !.decision = r.decision]
    /\ UNCHANGED <<clock, session, activity_log>>

\* notify_claim_update returns and the handler sends its response
ReviewNotify(i) ==
    /\ i \in 1..Len(inflight)
    /\ inflight[i].kind = "review"
    /\ inflight[i].pc = "notify"
    /\ inflight' = [inflight EXCEPT ![i].pc = "done"]
    /\ last' = [NoCall EXCEPT !.op = "review", !.found = TRUE,
                              !.claim_id = inflight[i].claim_id,
                              !.decision = inflight[i].decision,
                              !.applied = inflight[i].deferred_updates]
    /\ UNCHANGED <<usage, claims_history, clock, session, activity_log>>

\* process_claim up to claim_graph.ainvoke: the run waits for setup_node
RunRequest(member_id, msg, doc, role, llm) ==
    [kind |-> "run", pc |-> "setup_node",
     st |-> InitialState(member_id, msg, doc, role),
     llm |-> llm, applied |-> <<>>, updates |-> <<>>, loaded |-> 0]

RunAt(i, pc) ==
    /\ i \in 1..Len(inflight)
    /\ inflight[i].kind = "run"
    /\ inflight[i].pc = pc

\* setup_node: get_member_by_id copies the member; the copy is the run's
\* view of the ledger until the run ends
RunSetup(i) ==
    /\ RunAt(i, "setup_node")
    /\ LET s1 == setup_node(inflight[i].st, usage)
       IN inflight' = [inflight EXCEPT
                         ![i].st = s1,
                         ![i].pc = route_after_setup(s1)]
    /\ UNCHANGED <<usage, claims_history, clock, last, session, activity_log>>

\* parallel_validation_node: intake and eligibility joined by asyncio.gather;
\* check_existing_claim reads the claim store as it is now
RunValidation(i) ==
    /\ RunAt(i, "parallel_validation_node")
    /\ LET s2 == parallel_validation_node(inflight[i].st, claims_history, 1)
       IN inflight' = [inflight EXCEPT
                         ![i].st = s2,
                         ![i].pc = route_after_parallel_validation(s2)]
    /\ UNCHANGED <<usage, claims_history, clock, last, session, activity_log>>

\* principal_node: the LLM call has answered, failed or timed out
RunPrincipal(i) ==
    /\ RunAt(i, "principal_node")
    /\ LET s3 == principal_node(inflight[i].st, inflight[i].llm)
       IN inflight' = [inflight EXCEPT ![i].st = s3,
                                       ![i].pc = route_after_principal(s3)]
    /\ UNCHANGED <<usage, claims_history, clock, last, session, activity_log>>

\* the nodes route_after_principal is mapped to (graph.py:396-400)
ProcessorNodes == {"outpatient_node", "hospital_node", "exceptions_node"}

\* the processor route_after_principal selected; its edge leads to
\* decision_node
RunProcessor(i) ==
    /\ \E node \in ProcessorNodes : RunAt(i, node)
    /\ inflight' = [inflight EXCEPT
                      ![i].st = processor_node(inflight[i].st, claims_history),
                      ![i].pc = "decision_node"]
    /\ UNCHANGED <<usage, claims_history, clock, last, session, activity_log>>

\* decision_node up to its update loop.  decision_node is a plain def: under
\* ainvoke the graph runs it on a worker thread of the loop's executor, so
\* the steps of two runs' decision_node interleave
RunDecision(i) ==
    /\ RunAt(i, "decision_node")
    /\ LET d == decision_node(inflight[i].st, usage, claims_history, clock)
       IN inflight' = [inflight EXCEPT
                         ![i].applied = IF inflight[i].st.found
                                        THEN d.applied ELSE <<>>,
                         ![i].updates = IF inflight[i].st.found
                                        THEN d.applied ELSE <<>>,
                         ![i].pc = IF inflight[i].st.found /\ d.applied # <<>>
                                   THEN "load" ELSE "record"]
    /\ UNCHANGED <<usage, claims_history, clock, last, session, activity_log>>

\* update_usage, usage[field] += increment: the read of the field
RunLoad(i) ==
    /\ RunAt(i, "load")
    /\ inflight' = [inflight EXCEPT
                      ![i].loaded = usage[Head(inflight[i].updates).field],
                      ![i].pc = "store"]
    /\ UNCHANGED <<usage, claims_history, clock, last, session, activity_log>>

\* update_usage, usage[field] += increment: the write of the sum
RunStore(i) ==
    /\ RunAt(i, "store")
    /\ LET upd == Head(inflight[i].updates)
       IN /\ usage' = [usage EXCEPT ![upd.field] =
                                        inflight[i].loaded + upd.increment]
          /\ inflight' = [inflight EXCEPT
                            ![i].updates = Tail(@),
                            ![i].pc = IF Tail(inflight[i].updates) = <<>>
                                      THEN "record" ELSE "load"]
    /\ UNCHANGED <<claims_history, clock, last, session, activity_log>>

\* decision_node after the loop: the claim record; then ainvoke returns and
\* process_claim builds its response
RunRecordStores(i) ==
    /\ RunAt(i, "record")
    /\ LET st == inflight[i].st
           d == decision_node(st, usage, claims_history, clock)
       IN /\ claims_history' = d.history
          /\ inflight' = [inflight EXCEPT
                            ![i].pc = "done",
                            ![i].st.nodes = d.nodes,
                            ![i].st.decision = d.decision]
          /\ last' = [NoCall EXCEPT
                        !.op = "process", !.role = d.role,
                        !.member_id = st.member_id, !.decision = d.decision,
                        !.ai_decision = d.ai_decision,
                        !.payout_amount = d.payout_amount,
                        !.flags = d.flags, !.needs_info = d.needs_info,
                        !.nodes = d.nodes, !.branch = d.branch,
                        !.eligibility_failure = d.eligibility_failure,
                        !.doc = d.extracted_doc, !.recorded = d.recorded,
                        !.applied = d.applied, !.claim_id = clock,
                        !.found = st.found]
    /\ UNCHANGED <<usage, clock, activity_log>>

\* a run without session_id: the session it writes is read by no later call
RunRecord(i) == RunRecordStores(i) /\ UNCHANGED session

\* a run in the followed session: decision_node saves the turn and context
RunRecordInSession(i) ==
    /\ RunRecordStores(i)
    /\ session' = SaveRun(session, inflight[i].st.member_id, last')

\* process_claim for a follow-up: handle_follow_up answers from the session
\* once its LLM call has answered, failed or timed out
RunFollowUp(i) ==
    /\ RunAt(i, "handle_follow_up")
    /\ handle_follow_up(inflight[i].st.member_id, inflight[i].st.user_message)
    /\ inflight' = [inflight EXCEPT ![i].pc = "done"]
    /\ UNCHANGED activity_log

\* the next step of the i-th run, whichever it is
RunStep(i) ==
    \/ RunSetup(i) \/ RunValidation(i) \/ RunPrincipal(i) \/ RunProcessor(i)
    \/ RunDecision(i) \/ RunLoad(i) \/ RunStore(i) \/ RunRecord(i)

-----------------------------------------------------------------------------
(* Agent trace: ClaimState.agent_trace is a reducer channel (operator.add),
   what a node returns is appended to what the state holds *)

Entry(by, what) == [by |-> by, what |-> what]

\* intake_node's trace lines, cut where the task awaits a child agent
IntakeSegments(doc) ==
    LET wrong_form == doc.form_type = FormGP
                      /\ doc.treatment_type \in {TGP, TConsultant}
        failing == doc.present /\ (~doc.signature_present \/ wrong_form)
        first == <<Entry("intake", "form classified")>>
        second ==
            <<Entry("intake", "form classifier")>>
            \o (IF wrong_form THEN <<Entry("intake", "wrong form warning")>>
                ELSE <<>>)
            \o (IF ~doc.present THEN <<>>
                ELSE <<Entry("intake", "data extracted")>>
                     \o (IF ~doc.signature_present
                         THEN <<Entry("intake", "FAILED signature")>>
                         ELSE IF wrong_form
                         THEN <<Entry("intake", "FAILED wrong form")>>
                         ELSE <<Entry("intake", "compliance passed")>>))
    IN IF failing
       THEN <<first, second, <<Entry("intake", "compliance checker")>>>>
       ELSE <<first, second>>

\* the agent_trace intake_node returns: its list, or the single line of the
\* no-document return
IntakeReturn(doc, trace) ==
    IF ~doc.present THEN <<Entry("intake", "no document")>> ELSE trace

\* eligibility_node's trace lines, cut where the task awaits a child agent
EligibilitySegments(st, history, tod) ==
    LET reason == eligibility_node(st, history, tod).reason
        pre == (IF st.extracted_doc.treatment_date = NoDate
                THEN <<Entry("eligibility", "default date")>> ELSE <<>>)
               \o <<Entry("eligibility", "checking waiting period")>>
        toDeadline == pre \o <<Entry("eligibility", "waiting period passed"),
                               Entry("eligibility", "checking deadline")>>
        toThreshold == toDeadline
                       \o <<Entry("eligibility", "deadline passed"),
                            Entry("eligibility", "checking threshold"),
                            Entry("eligibility", "threshold")>>
    IN CASE reason = "waiting" ->
              << pre \o <<Entry("eligibility", "FAILED waiting period")>>,
                 <<Entry("eligibility", "waiting period checker")>> >>
         [] reason = "deadline" ->
              << toDeadline \o <<Entry("eligibility", "FAILED deadline")>>,
                 <<Entry("eligibility", "time limit checker")>> >>
         [] reason = "duplicate" ->
              << toThreshold,
                 <<Entry("eligibility", "threshold calculator"),
                   Entry("eligibility", "checking duplicates"),
                   Entry("eligibility", "FAILED duplicate")>>,
                 <<Entry("eligibility", "duplicate detector")>> >>
         [] OTHER ->
              << toThreshold,
                 <<Entry("eligibility", "threshold calculator"),
                   Entry("eligibility", "checking duplicates"),
                   Entry("eligibility", "no duplicate"),
                   Entry("eligibility", "checks complete")>> >>

\* a merge that lists the two results in the order the tasks finished
MergeTracesAsFinished(intake_trace, eligibility_trace, first) ==
    <<Entry("validator", "running checks")>>
    \o (IF first = "eligibility"
        THEN eligibility_trace \o intake_trace
        ELSE intake_trace \o eligibility_trace)
    \o <<Entry("validator", "checks completed")>>

\* parallel_validation_node's trace_entries after asyncio.gather
MergeTraces(intake_trace, eligibility_trace, first) ==
    <<Entry("validator", "running checks")>>
    \o intake_trace \o eligibility_trace
    \o <<Entry("validator", "checks completed")>>

NoTask == [k |-> 0, trace |-> <<>>, segments |-> <<>>]

\* a run whose trace is followed: setup_node has returned its line
TraceRequest(doc, store_usage) ==
    LET st == setup_node(InitialState(KnownMember, MsgPlain, doc, "developer"),
                         store_usage)
    IN [kind |-> "trace", pc |-> "parallel_validation_node", st |-> st,
        agent_trace |-> <<Entry("setup", "member loaded")>>,
        intake |-> NoTask, eligibility |-> NoTask, first |-> ""]

TraceAt(pc) ==
    /\ inflight # <<>>
    /\ inflight[1].kind = "trace"
    /\ inflight[1].pc = pc

\* parallel_validation_node up to asyncio.gather: both tasks are created
TraceGather ==
    /\ TraceAt("parallel_validation_node")
    /\ LET r == inflight[1]
       IN inflight' = <<[r EXCEPT
             !.pc = "gather",
             !.intake.segments = IntakeSegments(r.st.extracted_doc),
             !.eligibility.segments =
                 EligibilitySegments(r.st, claims_history, 1)]>>
    /\ UNCHANGED <<usage, claims_history, clock, last, session, activity_log>>

\* a task runs from one await to the next, adding lines to its own list
TaskRuns(task) ==
    /\ TraceAt("gather")
    /\ LET r == inflight[1]
           t == r[task]
           other == IF task = "intake" THEN r.eligibility ELSE r.intake
       IN /\ t.k < Len(t.segments)
          /\ inflight' = <<[r EXCEPT
                ![task].k = t.k + 1,
                ![task].trace = t.trace \o t.segments[t.k + 1],
                !.first = IF r.first = "" /\ t.k + 1 = Len(t.segments)
                          THEN task ELSE r.first]>>
    /\ UNCHANGED <<usage, claims_history, clock, last, session, activity_log>>

IntakeRuns == TaskRuns("intake")

EligibilityRuns == TaskRuns("eligibility")

\* gather has both results: the merged lines are appended to the state's trace
TraceMerge ==
    /\ TraceAt("gather")
    /\ LET r == inflight[1]
           s2 == parallel_validation_node(r.st, claims_history, 1)
       IN /\ r.intake.k = Len(r.intake.segments)
          /\ r.eligibility.k = Len(r.eligibility.segments)
          /\ inflight' = <<[r EXCEPT
                !.st = s2,
                !.pc = route_after_parallel_validation(s2),
                !.agent_trace =
                    @ \o MergeTraces(IntakeReturn(r.st.extracted_doc,
                                                  r.intake.trace),
                                     r.eligibility.trace, r.first)]>>
    /\ UNCHANGED <<usage, claims_history, clock, last, session, activity_log>>

\* principal_node, the processor and decision_node each return new lines
TraceLaterStage ==
    /\ inflight # <<>>
    /\ inflight[1].kind = "trace"
    /\ LET r == inflight[1]
       IN \/ /\ r.pc = "principal_node"
             /\ LET s3 == principal_node(r.st, "none")
                IN inflight' = <<[r EXCEPT
                      !.st = s3, !.pc = route_after_principal(s3),
                      !.agent_trace = Append(@, Entry("principal", "routing"))]>>
          \/ /\ r.pc \in {"outpatient_node", "hospital_node", "exceptions_node"}
             /\ inflight' = <<[r EXCEPT
                   !.st = processor_node(r.st, claims_history),
                   !.pc = "decision_node",
                   !.agent_trace = Append(@, Entry("processor", "processed"))]>>
          \/ /\ r.pc = "decision_node"
             /\ inflight' = <<[r EXCEPT
                   !.pc = "done",
                   !.agent_trace = Append(@, Entry("decision", "final"))]>>
    /\ UNCHANGED <<usage, claims_history, clock, last, session, activity_log>>

-----------------------------------------------------------------------------
(* Activity log *)

MAX_ACTIVITIES == 500

Reverse(seq) == [i \in 1..Len(seq) |-> seq[Len(seq) + 1 - i]]

\* seq[-k:] of Python for k >= 0: the whole list when k is 0 or k >= len
LastK(seq, k) ==
    IF k = 0 \/ k >= Len(seq) THEN seq
    ELSE SubSeq(seq, Len(seq) - k + 1, Len(seq))

\* the timestamp add_activity gives the next entry: later than every earlier one
NextStamp(log) == IF log = <<>> THEN 1 ELSE log[Len(log)].timestamp + 1

\* add_activity: append, then drop the oldest entry above 500
add_activity(log, activity) ==
    LET all == Append(log, activity)
    IN IF Len(all) > MAX_ACTIVITIES THEN Tail(all) ELSE all

\* a read that returns the window in stored order
get_activities_oldest_first(log, member_id, limit) ==
    LET filtered == IF member_id # ""
                    THEN SelectSeq(log, LAMBDA a : a.member_id = member_id)
                    ELSE log
    IN LastK(filtered, limit)

\* get_activities: filtered[-limit:][::-1]
get_activities(log, member_id, limit) ==
    LET filtered == IF member_id # ""
                    THEN SelectSeq(log, LAMBDA a : a.member_id = member_id)
                    ELSE log
    IN Reverse(LastK(filtered, limit))

-----------------------------------------------------------------------------
(* Inputs *)

D1 == Today - 30
D2 == Today - 20

ReviewDecisions == {"APPROVED", "PARTIALLY APPROVED", "REJECTED"}

\* ledgers of the seeded members MEM-1002 (receipts below the threshold)
\* and MEM-1004 (38 hospital days used)
Usage1002 ==
    [EmptyUsage EXCEPT !.q_accumulated_receipts = 110000,
                       !.gp_visits_count = 2, !.prescription_count = 1]
Usage1003 ==
    [EmptyUsage EXCEPT !.q_accumulated_receipts = 250000,
                       !.gp_visits_count = 4, !.scan_count = 10,
                       !.consultant_visits_count = 1]
Usage1004 ==
    [EmptyUsage EXCEPT !.q_accumulated_receipts = 180000,
                       !.gp_visits_count = 1, !.hospital_days_count = 38]

Req(doc, msg) == [doc |-> doc, msg |-> msg]

DocGP == MkDoc(TGP, D1, "Dr. John Doe", 15000)
DocHospital == [MkDoc(THospital, D2, "Beacon Hospital", 100000)
                  EXCEPT !.hospital_days = 5]
DocUnsigned == [MkDoc(TGP, D2, "Dr. John Doe", 60000)
                  EXCEPT !.signature_present = FALSE]

Requests ==
    { Req(DocGP, MsgPlain), Req(DocUnsigned, MsgPlain) }

-----------------------------------------------------------------------------
(* Specification: submissions and reviews for one member *)

Init ==
    /\ usage \in {Usage1002, Usage1004}
    /\ claims_history = <<>>
    /\ clock = 0
    /\ last = NoCall
    /\ session = EmptySession
    /\ activity_log = <<>>
    /\ inflight = <<>>

Submit ==
    \E r \in Requests, role \in {"customer", "developer"},
       now \in 0..MaxClock :
        ProcessClaim(KnownMember, r.msg, r.doc, role, "none", 1, now)

SubmitUnknown ==
    \E role \in {"customer", "developer"}, now \in 0..MaxClock :
        ProcessClaim(UnknownMember, MsgPlain, DocGP, role, "none", 1, now)

Review ==
    \E id \in 0..MaxClock, decision \in ReviewDecisions :
        review_claim(id, decision)

Next == Submit \/ SubmitUnknown \/ Review

Spec == Init /\ [][Next]_vars

-----------------------------------------------------------------------------
(* Specification: hospital stays of a member close to the 40-day limit *)

DocHospitalStay == [MkDoc(THospital, D1, "Beacon Hospital", 60000)
                      EXCEPT !.hospital_days = 3]

InitHospital ==
    /\ usage \in {Usage1002, Usage1004}
    /\ claims_history = <<>>
    /\ clock = 0
    /\ last = NoCall
    /\ session = EmptySession
    /\ activity_log = <<>>
    /\ inflight = <<>>

SubmitHospital ==
    \E doc \in {DocHospital, DocHospitalStay}, role \in {"customer", "developer"},
       llm \in {"none", "exceptions"}, now \in 0..MaxClock :
        ProcessClaim(KnownMember, MsgPlain, doc, role, llm, 1, now)

NextHospital == SubmitHospital \/ Review

SpecHospital == InitHospital /\ [][NextHospital]_vars

-----------------------------------------------------------------------------
(* Specification: resubmissions *)

DocGPAgain == MkDoc(TGP, D1, "DR. JOHN DOE", 15005)
DocGPOther == MkDoc(TGP, D2, "Dr. John Doe", 15000)
DocNoDate == MkDoc(TGP, NoDate, "Dr. John Doe", 15000)

InitDuplicate ==
    /\ usage \in {Usage1003, Usage1004}
    /\ claims_history = <<>>
    /\ clock = 0
    /\ last = NoCall
    /\ session = EmptySession
    /\ activity_log = <<>>
    /\ inflight = <<>>

SubmitDuplicate ==
    \E doc \in {DocGP, DocGPAgain, DocGPOther, DocNoDate},
       role \in {"customer", "developer"}, now \in 0..MaxClock :
        ProcessClaim(KnownMember, MsgPlain, doc, role, "none", 1, now)

NextDuplicate == SubmitDuplicate \/ Review

SpecDuplicate == InitDuplicate /\ [][NextDuplicate]_vars

-----------------------------------------------------------------------------
(* Specification: maternity / adoption claims *)

DocMaternity == [MkDoc(TMaternity, D1, "Beacon Hospital", 1500000)
                   EXCEPT !.form_type = FormNatal]
DocMaternityLater == [MkDoc(TMaternity, D2, "Beacon Hospital", 150000)
                        EXCEPT !.form_type = FormNatal]

InitMaternity ==
    /\ usage \in {Usage1003, Usage1004}
    /\ claims_history = <<>>
    /\ clock = 0
    /\ last = NoCall
    /\ session = EmptySession
    /\ activity_log = <<>>
    /\ inflight = <<>>

SubmitMaternity ==
    \E doc \in {DocMaternity, DocMaternityLater, DocGP},
       role \in {"customer", "developer"}, now \in 0..MaxClock :
        ProcessClaim(KnownMember, MsgPlain, doc, role, "none", 1, now)

NextMaternity == SubmitMaternity \/ Review

SpecMaternity == InitMaternity /\ [][NextMaternity]_vars

-----------------------------------------------------------------------------
(* Specification: one pipeline run over a wide range of documents *)

TreatmentTypes ==
    {TGP, TConsultant, TPrescription, TDental, TTherapy, TScan, THospital,
     TMaternity, ""}

CalcDocs ==
    { [MkDoc(tt, D1, pract, cost) EXCEPT !.hospital_days = days,
                                         !.is_accident = accident] :
        tt \in TreatmentTypes,
        pract \in {"Dr. John Doe", "Physiotherapy Plus"},
        cost \in {0, 15000, 25000, 40000, 1500000},
        days \in {0, 5, 45},
        accident \in BOOLEAN }

DocUnsignedSmall == [DocGP EXCEPT !.signature_present = FALSE]

CalcMessages == {MsgPlain, MsgAccident, MsgGP, MsgHospStay, MsgMaternity}

\* documents with either kind of routing message, and chat-only requests
CalcRequests ==
    { Req(doc, msg) : doc \in CalcDocs, msg \in {MsgPlain, MsgAccident} }
    \cup { Req(EmptyDoc, msg) : msg \in CalcMessages }
    \cup { Req(DocUnsignedSmall, MsgPlain) }

InitCalc ==
    /\ usage \in {Usage1002, Usage1003, Usage1004}
    /\ claims_history = <<>>
    /\ clock = 0
    /\ last = NoCall
    /\ session = EmptySession
    /\ activity_log = <<>>
    /\ inflight = <<>>

Calc ==
    /\ last.op = "none"
    /\ \E r \in CalcRequests, role \in {"customer", "developer"},
          llm \in {"none", "hospital", "exceptions", "junk"} :
        ProcessClaim(KnownMember, r.msg, r.doc, role, llm, 1, 0)

NextCalc == Calc

SpecCalc == InitCalc /\ [][NextCalc]_vars

-----------------------------------------------------------------------------
(* Specification: a conversation in one session *)

\* "thanks!"
MsgThanks == Phrased(MkMsg("", 0, 0, FALSE, FALSE), FALSE, FALSE, 1, 1)
\* "why was my claim rejected?"
MsgWhy == Phrased(MkMsg("", 0, 0, FALSE, FALSE), TRUE, FALSE, 5, 3)
\* "submit my gp receipt"
MsgSubmitShort == Phrased(MkMsg(TGP, 0, 0, FALSE, FALSE), FALSE, TRUE, 4, 0)
\* "can i claim for my gp visit?"
MsgShortQuestion == Phrased(MkMsg(TGP, 0, 0, FALSE, FALSE), TRUE, TRUE, 7, 0)
\* "can i also claim for my physiotherapy session from last week please?"
MsgLongQuestion == Phrased(MkMsg(TTherapy, 0, 0, FALSE, FALSE), TRUE, TRUE, 12, 2)
\* "here is the receipt for my dentist appointment that i had last monday"
MsgLongClaim == Phrased(MkMsg(TDental, 0, 0, FALSE, FALSE), FALSE, TRUE, 13, 1)
\* "yesterday i went to see someone about the pain in my knee"
MsgLongPlain == Phrased(MkMsg("", 0, 0, FALSE, FALSE), FALSE, FALSE, 12, 0)
\* "as you said earlier the payout of my claim is still not here"
MsgLongRemark == Phrased(MkMsg("", 0, 0, FALSE, FALSE), FALSE, FALSE, 13, 3)

SessionMessages ==
    {MsgThanks, MsgWhy, MsgSubmitShort, MsgShortQuestion, MsgLongQuestion,
     MsgLongClaim, MsgLongPlain, MsgLongRemark}

SessionRequests ==
    { Req(EmptyDoc, msg) : msg \in SessionMessages }
    \cup { Req(DocGP, MsgPlain), Req(DocGP, MsgLongPlain) }

InitSession ==
    /\ usage \in {Usage1002, Usage1004}
    /\ claims_history = <<>>
    /\ clock = 0
    /\ last = NoCall
    /\ session = EmptySession
    /\ activity_log = <<>>
    /\ inflight = <<>>

Chat ==
    /\ session.appended < 2 * MaxTurns
    /\ \E r \in SessionRequests, role \in {"customer", "developer"},
          now \in 0..MaxClock :
           process_claim(KnownMember, r.msg, r.doc, role, "none", 1, now)

ChatUnknown ==
    /\ session.appended < 2 * MaxTurns
    /\ \E role \in {"customer", "developer"}, now \in 0..MaxClock :
           process_claim(UnknownMember, MsgLongClaim, DocGP, role, "none", 1, now)

NextSession == Chat \/ ChatUnknown

SpecSession == InitSession /\ [][NextSession]_vars

-----------------------------------------------------------------------------
(* SpecHistory: one long session, a claim and the questions that follow it *)

HistoryRequests ==
    { Req(DocGP, MsgPlain), Req(EmptyDoc, MsgWhy), Req(DocGP, MsgLongClaim) }

InitHistory ==
    /\ usage \in {Usage1002, Usage1004}
    /\ claims_history = <<>>
    /\ clock = 0
    /\ last = NoCall
    /\ session = EmptySession
    /\ activity_log = <<>>
    /\ inflight = <<>>

ChatOn ==
    /\ session.appended < 2 * MaxHistoryTurns
    /\ \E r \in HistoryRequests, now \in {Min(clock, MaxClock)} :
           process_claim(KnownMember, r.msg, r.doc, "developer", "none", 1, now)

NextHistory == ChatOn

SpecHistory == InitHistory /\ [][NextHistory]_vars

-----------------------------------------------------------------------------
(* SpecDates: treatment dates around the two date limits *)

DatedDocs ==
    { MkDoc(TGP, date, "Dr. John Doe", 15000) :
        date \in { PolicyStart + WaitingPeriodDays - 1,
                   PolicyStart + WaitingPeriodDays,
                   PolicyStart + WaitingPeriodDays + 1,
                   Today - SubmissionWindowDays - 1,
                   Today - SubmissionWindowDays,
                   Today - SubmissionWindowDays + 1,
                   D1 } }

InitDates ==
    /\ usage \in {Usage1002, Usage1004}
    /\ claims_history = <<>>
    /\ clock = 0
    /\ last = NoCall
    /\ session = EmptySession
    /\ activity_log = <<>>
    /\ inflight = <<>>

\* tod: 0 when datetime.now() is a midnight exactly, 1 at any later time of
\* the day
SubmitDated ==
    \E doc \in DatedDocs, role \in {"customer", "developer"}, tod \in {0, 1},
       now \in 0..MaxClock :
        ProcessClaim(KnownMember, MsgPlain, doc, role, "none", tod, now)

NextDates == SubmitDated

SpecDates == InitDates /\ [][NextDates]_vars

-----------------------------------------------------------------------------
(* SpecLimits: outpatient claims of a member near an annual maximum *)

OutpatientTypes == {TGP, TConsultant, TPrescription, TTherapy, TDental, TScan}

\* a treatment type the outpatient processor has no branch for
TUnknown == "Acupuncture Retreat"

AnnualMax(treatment_type) ==
    IF treatment_type = TPrescription THEN PrescriptionMaxCount ELSE StdMaxCount

\* the seed ledger after earlier approved claims brought one counter to n
NearLimit(treatment_type, n) ==
    [Usage1002 EXCEPT ![UsageField(treatment_type)] = n]

LimitDocs ==
    { MkDoc(tt, D1, "Physiotherapy Plus", 15000) :
        tt \in OutpatientTypes \cup {TUnknown} }

InitLimits ==
    /\ usage \in UNION { { NearLimit(tt, AnnualMax(tt) - 1),
                            NearLimit(tt, AnnualMax(tt)) } :
                          tt \in OutpatientTypes }
    /\ claims_history = <<>>
    /\ clock = 0
    /\ last = NoCall
    /\ session = EmptySession
    /\ activity_log = <<>>
    /\ inflight = <<>>

SubmitNearLimit ==
    \E doc \in LimitDocs, now \in 0..MaxClock :
        ProcessClaim(KnownMember, MsgPlain, doc, "developer", "none", 1, now)

NextLimits == SubmitNearLimit

SpecLimits == InitLimits /\ [][NextLimits]_vars

-----------------------------------------------------------------------------
(* SpecActivity: a log near its cap, further activities and reads *)

OtherMember == "MEM-1001"

\* the log after n activities, logged in turn by the two members
LoggedSoFar(n) ==
    [i \in 1..n |-> [timestamp |-> i, type |-> "chat",
                     member_id |-> IF i % 2 = 0 THEN KnownMember ELSE OtherMember]]

InitActivity ==
    /\ usage = Usage1004
    /\ claims_history = <<>>
    /\ clock = 0
    /\ last = NoCall
    /\ session = EmptySession
    /\ activity_log \in { LoggedSoFar(n) :
                            n \in {0, 1, MAX_ACTIVITIES - 2, MAX_ACTIVITIES} }
    /\ inflight = <<>>

AddActivity ==
    /\ clock < MaxActivities
    /\ \E member_id \in {KnownMember, OtherMember}, type \in {"chat", "login"} :
         LET a == [timestamp |-> NextStamp(activity_log), type |-> type,
                   member_id |-> member_id]
         IN /\ activity_log' = add_activity(activity_log, a)
            /\ last' = [NoCall EXCEPT !.op = "add_activity", !.result = <<a>>]
    /\ clock' = clock + 1
    /\ UNCHANGED <<usage, claims_history, session, inflight>>

GetActivities ==
    /\ \E member_id \in {"", KnownMember}, limit \in {0, 1, 2, 50} :
         last' = [NoCall EXCEPT !.op = "get_activities",
                                !.member_id = member_id, !.limit = limit,
                                !.result = get_activities(activity_log,
                                                          member_id, limit)]
    /\ UNCHANGED <<usage, claims_history, clock, session, activity_log, inflight>>

NextActivity == AddActivity \/ GetActivities

SpecActivity == InitActivity /\ [][NextActivity]_vars

-----------------------------------------------------------------------------
(* SpecReviewRace: one customer claim and review requests that overlap *)

RaceSeeds == {Usage1003, Usage1004}

InitReviewRace ==
    /\ usage \in RaceSeeds
    /\ claims_history = <<>>
    /\ clock = 0
    /\ last = NoCall
    /\ session = EmptySession
    /\ activity_log = <<>>
    /\ inflight = <<>>

\* the customer's claim, submitted before any review arrives
SubmitForReview ==
    /\ claims_history = <<>>
    /\ inflight = <<>>
    /\ \E doc \in {DocGP, DocHospitalStay} :
          ProcessClaim(KnownMember, MsgPlain, doc, "customer", "none", 1, 0)

ReviewArrives ==
    /\ claims_history # <<>>
    /\ Len(inflight) < MaxRequests
    /\ \E claim_id \in {0, 1}, decision \in ReviewDecisions :
          inflight' = Append(inflight, ReviewRequest(claim_id, decision))
    /\ UNCHANGED <<usage, claims_history, clock, last, session, activity_log>>

ReviewRuns == \E i \in 1..Len(inflight) : ReviewBody(i)

ReviewReturns == \E i \in 1..Len(inflight) : ReviewNotify(i)

NextReviewRace ==
    SubmitForReview \/ ReviewArrives \/ ReviewRuns \/ ReviewReturns

SpecReviewRace == InitReviewRace /\ [][NextReviewRace]_vars

-----------------------------------------------------------------------------
(* SpecRuns: pipeline runs for one member that overlap *)

RunDocs == {DocGP, DocHospitalStay}

InitRuns ==
    /\ usage \in {Usage1003, Usage1004}
    /\ claims_history = <<>>
    /\ clock = 0
    /\ last = NoCall
    /\ session = EmptySession
    /\ activity_log = <<>>
    /\ inflight = <<>>

RunArrives ==
    /\ Len(inflight) < MaxRequests
    /\ \E doc \in RunDocs, llm \in {"none", "junk"} :
          inflight' = Append(inflight,
                             RunRequest(KnownMember, MsgPlain, doc,
                                        "developer", llm))
    /\ UNCHANGED <<usage, claims_history, clock, last, session, activity_log>>

\* any run in flight takes its next step
RunSteps == \E i \in 1..Len(inflight) : RunStep(i)

NextRuns == RunArrives \/ RunSteps

SpecRuns == InitRuns /\ [][NextRuns]_vars

-----------------------------------------------------------------------------
(* SpecStages: the requests of one session, each followed node by node *)

\* a therapy that is not on the allow-list
DocReiki == MkDoc(TTherapy, D2, "Reiki Healing", 40000)

StageRequests ==
    { Req(DocGP, MsgPlain), Req(EmptyDoc, MsgWhy),
      Req(DocUnsignedSmall, MsgLongClaim), Req(DocHospitalStay, MsgPlain),
      Req(DocMaternity, MsgLongClaim), Req(DocReiki, MsgPlain) }

InitStages ==
    /\ usage \in {Usage1002, Usage1004}
    /\ claims_history = <<>>
    /\ clock = 0
    /\ last = NoCall
    /\ session = EmptySession
    /\ activity_log = <<>>
    /\ inflight = <<>>

\* process_claim up to its first await: the follow-up gate, then either
\* handle_follow_up or the graph
StageArrives ==
    /\ IF inflight = <<>> THEN TRUE ELSE inflight[1].pc = "done"
    /\ Len(claims_history) < MaxClaims
    /\ session.appended < 2 * MaxTurns
    /\ \E member_id \in {KnownMember, UnknownMember}, r \in StageRequests,
          role \in {"customer", "developer"},
          llm \in {"none", "junk"} :
          LET run == RunRequest(member_id, r.msg, r.doc, role, llm)
          IN inflight' = << IF is_follow_up(r.msg, session)
                            THEN [run EXCEPT !.pc = "handle_follow_up"]
                            ELSE run >>
    /\ UNCHANGED <<usage, claims_history, clock, last, session, activity_log>>

\* the next step of the request in flight
StageStep ==
    \/ RunSetup(1) \/ RunValidation(1) \/ RunPrincipal(1) \/ RunProcessor(1)
    \/ RunDecision(1) \/ RunLoad(1) \/ RunStore(1) \/ RunRecordInSession(1)
    \/ RunFollowUp(1)

NextStages == StageArrives \/ StageStep

SpecStages == InitStages /\ [][NextStages]_vars

\* the event loop resumes every task that can continue: each LLM call ends
\* within LLM_TIMEOUT, each worker thread runs to the end of its node
SpecStagesFair == SpecStages /\ WF_vars(StageStep)

-----------------------------------------------------------------------------
(* SpecTrace: the trace of one run through the two validation tasks *)

DocWaiting == MkDoc(TGP, PolicyStart + 10, "Dr. John Doe", 15000)
DocExpired == MkDoc(TGP, Today - 400, "Dr. John Doe", 15000)
DocWrongForm == [DocGP EXCEPT !.form_type = FormGP]

TraceDocs ==
    {DocGP, EmptyDoc, DocUnsignedSmall, DocNoDate, DocWaiting, DocExpired,
     DocWrongForm, [DocWaiting EXCEPT !.signature_present = FALSE]}

InitTrace ==
    /\ usage \in {Usage1002, Usage1004}
    /\ claims_history = <<>>
    /\ clock = 0
    /\ last = NoCall
    /\ session = EmptySession
    /\ activity_log = <<>>
    /\ inflight = <<>>

TraceArrives ==
    /\ IF inflight = <<>> THEN TRUE ELSE inflight[1].pc = "done"
    /\ \E doc \in TraceDocs : inflight' = <<TraceRequest(doc, usage)>>
    /\ UNCHANGED <<usage, claims_history, clock, last, session, activity_log>>

NextTrace ==
    \/ TraceArrives \/ TraceGather \/ IntakeRuns \/ EligibilityRuns
    \/ TraceMerge \/ TraceLaterStage

SpecTrace == InitTrace /\ [][NextTrace]_vars

\* the record appended by the most recent pipeline run
LastRecord == claims_history[Len(claims_history)]

\* the record a review of claim_id resolves to
Reviewed(claim_id) == claims_history[FindClaim(claims_history, claim_id)]

HasUpdate(updates, field) ==
    \E k \in 1..Len(updates) : updates[k].field = field

-----------------------------------------------------------------------------
(* Customer runs and the ledger *)

\* C1: a pipeline run made with the customer role leaves every ledger
\* field of the member exactly as it was before the run.
C1_CustomerRunLeavesLedger ==
    [][(last'.op = "process" /\ last'.role = "customer") => usage' = usage]_vars

\* C2 as written: every customer run ends with final decision PENDING, and
\* the claim record it writes has status PENDING.
C2_CustomerAlwaysPending ==
    (last.op = "process" /\ last.role = "customer")
        => /\ last.decision = "PENDING"
           /\ last.recorded => LastRecord.status = "PENDING"

\* C2 amended: a customer run whose AI decision is APPROVED, REJECTED or
\* PARTIALLY APPROVED ends with final decision PENDING and writes a record
\* with status PENDING; a customer run whose AI decision is ACTION REQUIRED
\* keeps ACTION REQUIRED as final decision and as record status.
C2_CustomerHeldForReview ==
    (last.op = "process" /\ last.role = "customer")
        => /\ last.ai_decision \in {"APPROVED", "REJECTED", "PARTIALLY APPROVED"}
                => /\ last.decision = "PENDING"
                   /\ last.recorded => LastRecord.status = "PENDING"
           /\ last.ai_decision = "ACTION REQUIRED"
                => /\ last.decision = "ACTION REQUIRED"
                   /\ last.recorded => LastRecord.status = "ACTION REQUIRED"

C2_Witness ==
    /\ last.op = "process" /\ last.role = "customer"
    /\ last.ai_decision = "REJECTED" /\ last.decision = "PENDING"
    /\ last.recorded /\ LastRecord.status = "PENDING"

-----------------------------------------------------------------------------
(* Operator review *)

\* C3: when a claim is approved by review twice in a row, the second
\* approval applies no ledger update and the record's deferred list is
\* empty; the list was applied in full, once, by the first approval.
C3_SecondApprovalAppliesNothing ==
    (/\ last.op = "review" /\ last.found /\ last.decision \in Approving
     /\ last.prev_review.decision \in Approving
     /\ last.prev_review.claim_id = last.claim_id)
        => /\ last.applied = <<>>
           /\ Reviewed(last.claim_id).deferred_usage_updates = <<>>

C3_Witness ==
    /\ last.op = "review" /\ last.found /\ last.decision \in Approving
    /\ last.prev_review.decision \in Approving
    /\ last.prev_review.claim_id = last.claim_id
    /\ last.prev_review.applied # <<>>
    /\ last.applied = <<>>

-----------------------------------------------------------------------------
(* Payout amounts *)

\* the payout cap of the processor branch that decided the claim
BranchCap(branch) ==
    CASE branch = "Pharmacy" -> PrescriptionCap
      [] branch = "Maternity" -> MaternityPayout
      [] branch = "In-Patient" -> MaxHospitalDays * HospitalRate
      [] branch = "" -> 0
      [] OTHER -> StdCap

\* C5 as written: in every benefit category the payout of a run is at most
\* the category's cap and at most the claimed amount of the document.
C5_PayoutWithinCapAndClaimed ==
    last.op = "process"
        => /\ last.payout_amount <= BranchCap(last.branch)
           /\ last.payout_amount <= last.doc.total_cost

\* C5 amended: the payout of a run is at most the cap of the branch that
\* decided it (10 pharmacy, 200 maternity, 20 per day up to 800 for hospital
\* days, 20 otherwise, 0 when no processor ran), and at most the claimed
\* amount except for the flat maternity payout and the per-day hospital
\* payout, which do not depend on the claimed amount.
C5_PayoutWithinBranchCap ==
    last.op = "process"
        => /\ last.payout_amount >= 0
           /\ last.payout_amount <= BranchCap(last.branch)
           /\ last.branch \notin {"Maternity", "In-Patient"}
                => last.payout_amount <= last.doc.total_cost
           /\ last.branch = "Maternity"
                => last.payout_amount \in {0, MaternityPayout}
           /\ last.branch = "In-Patient"
                => /\ last.payout_amount % HospitalRate = 0
                   /\ last.payout_amount <= HospitalRate * last.doc.hospital_days

C5_Witness ==
    /\ last.op = "process" /\ last.branch = "GP"
    /\ last.doc.total_cost > StdCap
    /\ last.payout_amount = StdCap

-----------------------------------------------------------------------------
(* Ledger counters *)

\* C4: in every reachable state each ledger counter is at most its
\* maximum: 10 for GP, consultant, dental/optical, therapy and scan
\* visits, 4 for prescriptions, 40 for hospital days.
C4_CountersWithinMax ==
    /\ usage.gp_visits_count <= StdMaxCount
    /\ usage.consultant_visits_count <= StdMaxCount
    /\ usage.dental_optical_count <= StdMaxCount
    /\ usage.therapy_count <= StdMaxCount
    /\ usage.scan_count <= StdMaxCount
    /\ usage.prescription_count <= PrescriptionMaxCount
    /\ usage.hospital_days_count <= MaxHospitalDays

\* C6: for every hospital in-patient run, the days approved plus the days
\* the member had already used are at most 40.
C6_ApprovedPlusUsedWithin40 ==
    [][(last'.op = "process" /\ last'.branch = "In-Patient")
        => (last'.payout_amount \div HospitalRate) + usage.hospital_days_count
               <= MaxHospitalDays]_vars

\* C9: no step lowers the member's accumulated receipts.
C9_ReceiptsNeverDecrease ==
    [][usage'.q_accumulated_receipts >= usage.q_accumulated_receipts]_vars

C9_Witness ==
    /\ last.op \in {"process", "review"}
    /\ HasUpdate(last.applied, "q_accumulated_receipts")

-----------------------------------------------------------------------------
(* Resubmissions *)

\* the records that were in the history before the most recent run
Earlier ==
    1..(Len(claims_history) - (IF last.recorded THEN 1 ELSE 0))

\* C7: when a submission has the same treatment date, the same practitioner
\* up to letter case and a claimed amount within 0.01 of an earlier
\* submission of the member, its AI decision is REJECTED.
C7_ResubmissionRejected ==
    (/\ last.op = "process"
     /\ \E i \in Earlier :
          /\ claims_history[i].treatment_date = last.doc.treatment_date
          /\ Lower(claims_history[i].practitioner_name)
               = Lower(last.doc.practitioner_name)
          /\ Abs(claims_history[i].claimed_amount - last.doc.total_cost)
               < DupTolerance)
        => last.ai_decision = "REJECTED"

\* C8: every claim rejected by Eligibility's duplicate detection carries
\* the flag DUPLICATE in the result flags and in its record's ai_flags.
C8_DuplicateFlagged ==
    (last.op = "process" /\ last.eligibility_failure = "duplicate")
        => /\ Contains(last.flags, "DUPLICATE")
           /\ last.recorded => Contains(LastRecord.ai_flags, "DUPLICATE")

-----------------------------------------------------------------------------
(* Maternity / adoption *)

\* C10: once a maternity claim has been approved and its ledger effects
\* applied, maternity_claimed is true in the ledger and every later
\* maternity claim of the member is REJECTED with payout 0.
C10_OneMaternityBenefit ==
    (\E i \in Earlier :
        /\ claims_history[i].treatment_type = TMaternity
        /\ claims_history[i].status = "APPROVED"
        /\ claims_history[i].deferred_usage_updates = <<>>)
        => /\ usage.maternity_claimed
           /\ (last.op = "process" /\ last.doc.treatment_type = TMaternity)
                => last.ai_decision = "REJECTED" /\ last.payout_amount = 0

-----------------------------------------------------------------------------
(* Quarterly threshold *)

PendingThreshold(flags) == Contains(flags, "PENDING_THRESHOLD")

\* what the processor branch pays for an APPROVED claim
ApprovedPayout(branch, doc) ==
    CASE branch = "Pharmacy" -> Min(doc.total_cost, PrescriptionCap)
      [] branch = "Maternity" -> MaternityPayout
      [] branch = "In-Patient" -> HospitalRate * doc.hospital_days
      [] OTHER -> Min(doc.total_cost, StdCap)

\* C11 as written: a claim is flagged PENDING_THRESHOLD exactly when the
\* accumulated receipts plus the claimed amount are below 150.00.
C11_FlaggedIffBelowThreshold ==
    [][last'.op = "process"
        => (PendingThreshold(last'.flags)
              <=> usage.q_accumulated_receipts + last'.doc.total_cost
                    < Threshold)]_vars

\* C11 amended: a claim that passes intake and the waiting-period, deadline
\* and duplicate checks is flagged PENDING_THRESHOLD exactly when the
\* accumulated receipts plus the claimed amount are below 150.00, and a
\* claim stopped by one of those checks is never flagged; a flagged claim
\* is not rejected by validation and is decided by a processor; when that
\* decision is APPROVED the final decision is PENDING and the payout is
\* the processor's.
C11_ThresholdFlag ==
    [][last'.op = "process"
        => LET flagged == PendingThreshold(last'.flags)
               validated == Contains(last'.nodes, "principal")
           IN /\ flagged
                   <=> /\ validated
                       /\ usage.q_accumulated_receipts + last'.doc.total_cost
                            < Threshold
              /\ flagged => /\ last'.eligibility_failure = ""
                            /\ last'.branch # ""
              /\ (flagged /\ last'.ai_decision = "APPROVED")
                   => /\ last'.decision = "PENDING"
                      /\ last'.payout_amount
                           = ApprovedPayout(last'.branch, last'.doc)]_vars

C11_Witness ==
    /\ last.op = "process" /\ last.role = "developer"
    /\ PendingThreshold(last.flags)
    /\ last.ai_decision = "APPROVED" /\ last.decision = "PENDING"
    /\ last.payout_amount = StdCap

-----------------------------------------------------------------------------
(* Validation stage outcome *)

\* Intake's verdict on the document of the most recent run
IntakeOf(doc) == intake_node([extracted_doc |-> doc])

\* C12: when Intake fails on a claim of a known member, the outcome of
\* validation is Intake's: decision ACTION REQUIRED, Intake's needs-info,
\* payout 0, no Eligibility flag, and no routing or processor stage,
\* whatever Eligibility returned for the same claim.
C12_IntakeFailureWins ==
    (/\ last.op = "process" /\ last.found
     /\ IntakeOf(last.doc).decision = "ACTION REQUIRED")
        => /\ last.ai_decision = "ACTION REQUIRED"
           /\ last.needs_info = IntakeOf(last.doc).needs_info
           /\ last.payout_amount = 0
           /\ last.flags = <<>>
           /\ last.nodes = <<"setup", "validation", "decision">>

C12_Witness ==
    /\ last.op = "process" /\ last.found
    /\ IntakeOf(last.doc).decision = "ACTION REQUIRED"
    /\ last.eligibility_failure = "duplicate"
    /\ last.ai_decision = "ACTION REQUIRED"

-----------------------------------------------------------------------------
(* Member not found *)

\* C13: when the member id is not in the store, the final decision is
\* REJECTED with payout 0, only setup and the decision node run, and
\* neither the ledger nor the claim history changes.
C13_MemberNotFoundRejected ==
    [][(last'.op = "process" /\ ~last'.found)
        => /\ last'.decision = "REJECTED"
           /\ last'.payout_amount = 0
           /\ last'.nodes = <<"setup", "decision">>
           /\ usage' = usage
           /\ claims_history' = claims_history]_vars

-----------------------------------------------------------------------------
(* Records and session context written by a run *)

\* the claim context a run with response r leaves in its session
ContextOf(r) ==
    [saved |-> TRUE, member_id |-> r.member_id, extracted_doc |-> r.doc,
     decision |-> r.decision, payout_amount |-> r.payout_amount,
     flags |-> r.flags]

\* C14: every pipeline run appends exactly one record to the member's
\* claim history, whatever its final decision, and stores the run's claim
\* context as the session's last_claim_context.
C14_OneRecordPerRun ==
    [][last'.op = "process"
        => /\ Len(claims_history') = Len(claims_history) + 1
           /\ SubSeq(claims_history', 1, Len(claims_history)) = claims_history
           /\ claims_history'[Len(claims_history')].status = last'.decision
           /\ session'.last_claim_context = ContextOf(last')]_vars

\* a run that changed the ledger and wrote no record
C14_LedgerChangedWithoutRecord ==
    ~(last.op = "process" /\ last.found /\ ~last.recorded /\ last.applied # <<>>)

-----------------------------------------------------------------------------
(* Follow-up turns *)

\* the two entries a turn appends: the user message, then the reply
AppendedTurn(before, after) ==
    /\ after.appended = before.appended + 2
    /\ Len(after.messages) >= 2
    /\ after.messages[Len(after.messages) - 1].role = "user"
    /\ after.messages[Len(after.messages) - 1].timestamp = before.appended + 1
    /\ after.messages[Len(after.messages)].role = "assistant"
    /\ after.messages[Len(after.messages)].timestamp = before.appended + 2
    /\ Len(after.messages) = Min(Len(before.messages) + 2, MAX_MESSAGES_PER_SESSION)
    /\ \A i \in 1..(Len(after.messages) - 2) :
          after.messages[i] =
              before.messages[i + Len(before.messages) + 2 - Len(after.messages)]

\* C15: a message classified FOLLOW_UP runs no pipeline stage: the usage
\* ledger, the claim history and the session's last_claim_context are
\* unchanged, exactly two messages (user, then assistant) are appended, and
\* the returned decision, payout and flags are those of last_claim_context.
C15_FollowUpTouchesNothing ==
    [][last'.op = "follow_up"
        => /\ usage' = usage
           /\ claims_history' = claims_history
           /\ clock' = clock
           /\ session'.last_claim_context = session.last_claim_context
           /\ AppendedTurn(session, session')
           /\ last'.decision = session.last_claim_context.decision
           /\ last'.payout_amount = session.last_claim_context.payout_amount
           /\ last'.flags = session.last_claim_context.flags
           /\ session'.messages[Len(session'.messages)].decision
                 = session.last_claim_context.decision]_vars

\* a follow-up answered after a recorded claim with a payout
C15_Witness ==
    /\ last.op = "follow_up"
    /\ last.payout_amount > 0
    /\ Len(claims_history) = 1
    /\ Len(session.messages) = 4
    /\ session.last_claim_context.saved

-----------------------------------------------------------------------------
(* Classification of a message *)

\* C16: in a session with no prior messages or no prior claim context every
\* message is classified NEW_CLAIM whatever its text, and the first message
\* of a session runs the full pipeline.
C16_EmptySessionIsNewClaim ==
    [][(session.messages = <<>> \/ ~session.last_claim_context.saved)
        => /\ \A msg \in SessionMessages : ~is_follow_up(msg, session)
           /\ last'.op = "process"
           /\ session'.last_claim_context.saved]_vars

\* the first message of a session, naming no treatment, went through the
\* pipeline
C16_Witness ==
    /\ last.op = "process"
    /\ session.appended = 2
    /\ last.doc.treatment_type = ""
    /\ last.ai_decision = "ACTION REQUIRED"

\* a step of the session in which the member sent msg
Sends(msg) ==
    \E r \in SessionRequests, role \in {"customer", "developer"},
       now \in 0..MaxClock :
        /\ r.msg = msg
        /\ process_claim(KnownMember, r.msg, r.doc, role, "none", 1, now)

\* the session holds prior messages and a prior claim context
HasPriorContext == session.messages # <<>> /\ session.last_claim_context.saved

\* C17 as stated: every message of at most 8 words arriving in a session with
\* prior messages and a prior claim context is classified FOLLOW_UP, so the
\* pipeline is bypassed for it.
C17_ShortIsFollowUp ==
    [][HasPriorContext
        => \A msg \in SessionMessages :
              msg.words <= 8
                => /\ is_follow_up(msg, session)
                   /\ Sends(msg) => last'.op = "follow_up"]_vars

\* C17 (amended): a message of at most 8 words that is phrased as a question
\* or matches no new-claim pattern, arriving in a session with prior messages
\* and a prior claim context, is classified FOLLOW_UP and bypasses the
\* pipeline; a short statement matching a new-claim pattern is a NEW_CLAIM.
C17_ShortWithoutClaimWordsIsFollowUp ==
    [][HasPriorContext
        => \A msg \in SessionMessages :
              msg.words <= 8
                => IF msg.question \/ ~msg.new_claim
                   THEN /\ is_follow_up(msg, session)
                        /\ Sends(msg) => last'.op = "follow_up"
                   ELSE /\ ~is_follow_up(msg, session)
                        /\ Sends(msg) => last'.op = "process"]_vars

\* a follow-up was answered in a session where the short remark and the short
\* question are follow-ups and the short submission is not
C17_Witness ==
    /\ HasPriorContext
    /\ last.op = "follow_up"
    /\ is_follow_up(MsgThanks, session)
    /\ is_follow_up(MsgShortQuestion, session)
    /\ ~is_follow_up(MsgSubmitShort, session)

-----------------------------------------------------------------------------
(* Bounded message history *)

\* C18: after any sequence of pipeline runs and follow-ups the session's
\* message history holds at most 50 entries, and they are the most recently
\* appended ones in their order of arrival (the oldest are evicted first).
C18_HistoryKeepsNewest50 ==
    LET n == Len(session.messages)
    IN /\ n <= 50
       /\ n = Min(session.appended, MAX_MESSAGES_PER_SESSION)
       /\ \A i \in 1..n :
             session.messages[i].timestamp = session.appended - n + i

\* more than 50 entries have arrived and the oldest ones are gone
C18_Witness ==
    /\ session.appended > MAX_MESSAGES_PER_SESSION
    /\ Len(session.messages) = MAX_MESSAGES_PER_SESSION
    /\ session.messages[1].timestamp > 1
    /\ last.op = "follow_up"

-----------------------------------------------------------------------------
(* The routing answer of the language model *)

\* what the principal agent's call can come to: "none" when the call fails or
\* no key is configured, a route when it answers one (in JSON, or as a keyword
\* in text that is not JSON), "junk" when the answered route is no route
LlmOutcomes == {"none", "hospital", "exceptions", "outpatient", "junk"}

\* the response process_claim gives in the current state
Response(member_id, msg, doc, role, llm, tod, now) ==
    decision_node(RunToDecision(InitialState(member_id, msg, doc, role),
                                usage, claims_history, llm, tod),
                  usage, claims_history, now)

\* C19: for the same member state, document, message and role the decision
\* and the payout returned by ProcessClaim are the same whether the external
\* LLM calls succeed, return unusable text or fail.
C19_LlmNeverChangesOutcome ==
    [][\A r \in CalcRequests, role \in {"customer", "developer"} :
         ProcessClaim(KnownMember, r.msg, r.doc, role, "none", 1, 0)
           => \A llm \in LlmOutcomes :
                 LET d == Response(KnownMember, r.msg, r.doc, role, llm, 1, 0)
                 IN /\ d.decision = last'.decision
                    /\ d.payout_amount = last'.payout_amount]_vars

-----------------------------------------------------------------------------
(* The route taken *)

\* the processors that ran in the call behind the response r
ProcessorsRun(r) ==
    {r.nodes[i] : i \in 1..Len(r.nodes)} \cap {"outpatient", "hospital", "exceptions"}

\* the route the priority order of the keywords gives
KeywordRoute(doc, msg) ==
    IF doc.treatment_type = TMaternity \/ doc.form_type = FormNatal \/ msg.excKw
    THEN "exceptions"
    ELSE IF \/ doc.treatment_type = THospital \/ msg.hospKw
            \/ doc.hospital_days # 0 \/ doc.procedure_code # 0
    THEN "hospital"
    ELSE "outpatient"

\* C20: the router yields exactly one of outpatient, hospital, exceptions:
\* exception keywords win over hospital keywords and hospital fields, these
\* win over the outpatient default, and any value outside the three (one
\* suggested by the LLM included) is replaced by outpatient.
C20_RouteFollowsKeywordPriority ==
    [][\A r \in CalcRequests, role \in {"customer", "developer"},
          llm \in LlmOutcomes :
         (/\ ProcessClaim(KnownMember, r.msg, r.doc, role, llm, 1, 0)
          /\ Contains(last'.nodes, "principal"))
           => /\ Cardinality(ProcessorsRun(last')) = 1
              /\ ProcessorsRun(last') = {KeywordRoute(last'.doc, r.msg)}]_vars

-----------------------------------------------------------------------------
(* Ledger writes of a non-customer run *)

\* the days of a stay that fit under the annual maximum
ApprovedDays(doc, u) ==
    IF doc.treatment_type = THospital /\ doc.hospital_days > 0
    THEN Min(doc.hospital_days, Max(0, MaxHospitalDays - u.hospital_days_count))
    ELSE 0

\* the ledger u plus the deltas of an approved claim for doc
LedgerPlusDeltas(u, doc) ==
    [f \in DOMAIN u |->
        IF f = "maternity_claimed" THEN u[f]
        ELSE u[f]
             + (IF f = UsageField(doc.treatment_type) THEN 1 ELSE 0)
             + (IF f = "hospital_days_count" THEN ApprovedDays(doc, u) ELSE 0)
             + (IF f = "q_accumulated_receipts" THEN doc.total_cost ELSE 0)]

\* a step that is a pipeline run of a non-customer whose AI decision approves
NonCustomerApproval ==
    /\ last'.op = "process"
    /\ last'.found
    /\ last'.role # "customer"
    /\ last'.ai_decision \in Approving

\* C21: after a non-customer run whose AI decision is APPROVED or PARTIALLY
\* APPROVED the ledger equals the ledger before the run plus the claim's
\* deltas (category counter +1, hospital_days_count + approved days for
\* hospital in-patient claims, q_accumulated_receipts + claimed amount), and
\* the record's deferred_usage_updates list is empty.
C21_DeveloperRunAppliesDeltas ==
    [][NonCustomerApproval
        => /\ usage' = LedgerPlusDeltas(usage, last'.doc)
           /\ last'.recorded
                => claims_history'[Len(claims_history')].deferred_usage_updates
                      = <<>>]_vars

-----------------------------------------------------------------------------
(* Date limits *)

\* a step that is a pipeline run in which the validators saw a dated document
DatedValidation ==
    /\ last'.op = "process"
    /\ Contains(last'.nodes, "validation")
    /\ last'.doc.treatment_date > 0

\* C22: the waiting-period check rejects a claim exactly when its treatment
\* date is strictly earlier than the policy start date plus 84 days: day
\* start+83 is REJECTED, day start+84 passes the check.
C22_WaitingPeriodBoundary ==
    [][DatedValidation
        => /\ (last'.eligibility_failure = "waiting")
                <=> (last'.doc.treatment_date < PolicyStart + 84)
           /\ last'.eligibility_failure = "waiting"
                => last'.ai_decision = "REJECTED" /\ last'.payout_amount = 0]_vars

\* a treatment on the first day after the waiting period passed the check
C22_Witness ==
    /\ last.op = "process"
    /\ last.doc.treatment_date = PolicyStart + 84
    /\ last.eligibility_failure # "waiting"
    /\ Contains(last.nodes, "validation")

\* C23: the submission-deadline check rejects a claim exactly when today is
\* later than the treatment date plus 365 days: a claim submitted on the day
\* treatment_date + 365 is not expired, one submitted on the day
\* treatment_date + 366 is REJECTED.
C23_DeadlineBoundary ==
    [][(DatedValidation /\ last'.eligibility_failure # "waiting")
        => /\ (last'.eligibility_failure = "deadline")
                <=> (Today > last'.doc.treatment_date + 365)
           /\ last'.eligibility_failure = "deadline"
                => last'.ai_decision = "REJECTED" /\ last'.payout_amount = 0]_vars

-----------------------------------------------------------------------------
(* Hospital in-patient cash back *)

\* a step that is a run of a hospital in-patient stay through the hospital
\* processor
HospitalStayRun ==
    /\ last'.op = "process"
    /\ Contains(last'.nodes, "hospital")
    /\ last'.doc.treatment_type = THospital
    /\ last'.doc.hospital_days > 0
    /\ last'.doc.procedure_code = 0

-----------------------------------------------------------------------------
(* Annual limits of the outpatient categories *)

\* C25: for every outpatient category, when the member's counter for that
\* category is at or above its annual maximum (4 for prescriptions, 10 for
\* the others) the Outpatient Processor returns REJECTED with payout 0; an
\* unknown treatment type returns ACTION REQUIRED with payout 0.
C25_AnnualLimitRejects ==
    [][(last'.op = "process" /\ Contains(last'.nodes, "outpatient"))
        => LET tt == last'.doc.treatment_type
           IN /\ (tt \in OutpatientTypes
                    /\ usage[UsageField(tt)]
                          >= (IF tt = TPrescription THEN 4 ELSE 10))
                   => last'.ai_decision = "REJECTED" /\ last'.payout_amount = 0
              /\ tt \notin OutpatientTypes \cup {""}
                   => last'.ai_decision = "ACTION REQUIRED"
                      /\ last'.payout_amount = 0]_vars

\* a fifth prescription was rejected
C25_Witness ==
    /\ last.op = "process"
    /\ last.branch = "Pharmacy"
    /\ usage.prescription_count = 4
    /\ last.ai_decision = "REJECTED"
    /\ last.payout_amount = 0

-----------------------------------------------------------------------------
(* Activity log reads *)

\* C26: the activity log returns the most recent entries first: immediately
\* after add_activity(a), get_activities with limit >= 1 and no member filter
\* returns a as its first element, after any number of earlier additions.
C26_NewestActivityFirst ==
    [][(/\ last.op = "add_activity"
        /\ last'.op = "get_activities"
        /\ last'.member_id = ""
        /\ last'.limit >= 1)
        => /\ last'.result # <<>>
           /\ last'.result[1] = last.result[1]
           /\ \A i \in 1..(Len(last'.result) - 1) :
                 last'.result[i].timestamp > last'.result[i + 1].timestamp]_vars

\* the log is full, older entries were dropped, and a read of two entries
\* followed an addition
C26_Witness ==
    /\ last.op = "get_activities"
    /\ last.member_id = ""
    /\ last.limit = 2
    /\ Len(activity_log) = MAX_ACTIVITIES
    /\ activity_log[1].timestamp > 1
    /\ last.result[1] = activity_log[MAX_ACTIVITIES]

-----------------------------------------------------------------------------
(* Overlapping reviews *)

\* the requests that approve the claim and whose body has run
ApprovalsRun(claim_id) ==
    {i \in 1..Len(inflight) :
        /\ inflight[i].kind = "review"
        /\ inflight[i].claim_id = claim_id
        /\ inflight[i].decision \in Approving
        /\ inflight[i].pc \in {"notify", "done"}}

\* C27: when two review requests approving the same customer claim run
\* concurrently, in every interleaving of their steps the claim's
\* deferred_usage_updates are applied to the ledger at most once.
C27_DeferredAppliedOnce ==
    claims_history # <<>>
      => LET c == claims_history[1]
             applying == {i \in ApprovalsRun(c.claim_id) :
                             inflight[i].deferred_updates # <<>>}
         IN /\ Cardinality(applying) <= 1
            /\ \E u0 \in RaceSeeds :
                  \/ applying = {} /\ usage = u0
                  \/ \E i \in applying :
                        usage = ApplyUpdates(u0, inflight[i].deferred_updates)

\* two approvals of the same claim are suspended at their await together,
\* and the updates were applied
C27_Witness ==
    /\ Len(inflight) = 2
    /\ inflight[1].pc = "notify" /\ inflight[2].pc = "notify"
    /\ inflight[1].claim_id = inflight[2].claim_id
    /\ inflight[1].decision \in Approving /\ inflight[2].decision \in Approving
    /\ inflight[1].deferred_updates # <<>>
    /\ inflight[2].deferred_updates = <<>>
    /\ usage \notin RaceSeeds

-----------------------------------------------------------------------------
(* Overlapping pipeline runs *)

RECURSIVE SumIncrements(_, _)
\* the increments to one field in a list of updates
SumIncrements(updates, field) ==
    IF updates = <<>> THEN 0
    ELSE (IF Head(updates).field = field THEN Head(updates).increment ELSE 0)
         + SumIncrements(Tail(updates), field)

\* the runs that have returned
RunsDone == {i \in 1..Len(inflight) : inflight[i].pc = "done"}

\* C28: when two pipeline runs for the same member are in flight at the same
\* time and both apply ledger increments, no increment is lost: each ledger
\* field ends at its initial value plus the sum of all increments applied by
\* the two runs.
C28_NoIncrementLost ==
    (Len(inflight) = 2 /\ RunsDone = {1, 2})
      => \E u0 \in {Usage1003, Usage1004} :
            \A field \in {"gp_visits_count", "hospital_days_count",
                          "q_accumulated_receipts"} :
               usage[field] = u0[field]
                              + SumIncrements(inflight[1].applied, field)
                              + SumIncrements(inflight[2].applied, field)

-----------------------------------------------------------------------------
(* Stage order *)

\* a validation result that ends the run early
ValidationStops(st) == st.decision \in {"ACTION REQUIRED", "REJECTED"}

\* the stages a run can have been through when it enters decision_node
StagesBeforeDecision ==
    {<<"setup">>, <<"setup", "validation">>}
      \cup {<<"setup", "validation", "principal", p>> :
                p \in {"outpatient", "hospital", "exceptions"}}

\* C29: in every pipeline run the stages execute in the order Setup,
\* Validation, Routing, Processing, Decision: Routing and a processor run only
\* when Setup found the member and Validation produced neither ACTION
\* REQUIRED nor REJECTED, exactly one of the three processors runs in that
\* case, and the Decision Aggregator runs exactly once, as the last stage.
C29_StageOrder ==
    \A i \in 1..Len(inflight) :
       LET pc == inflight[i].pc
           st == inflight[i].st
       IN /\ pc = "setup_node" => st.nodes = <<>>
          /\ pc = "parallel_validation_node"
               => st.found /\ st.nodes = <<"setup">>
          /\ pc = "principal_node"
               => /\ st.found /\ ~ValidationStops(st)
                  /\ st.nodes = <<"setup", "validation">>
          /\ pc \in ProcessorNodes
               => /\ st.found /\ ~ValidationStops(st)
                  /\ st.nodes = <<"setup", "validation", "principal">>
          /\ pc \in {"decision_node", "load", "store", "record"}
               => /\ st.nodes \in StagesBeforeDecision
                  /\ st.nodes = <<"setup">> <=> ~st.found
                  /\ st.nodes = <<"setup", "validation">>
                       => ValidationStops(st)
          /\ pc = "done" /\ last.op = "process"
               => \E pre \in StagesBeforeDecision :
                     st.nodes = Append(pre, "decision")

\* a run that went through all five stages and has returned
C29_Witness ==
    /\ inflight # <<>>
    /\ inflight[1].pc = "done"
    /\ inflight[1].st.nodes
         = <<"setup", "validation", "principal", "hospital", "decision">>

-----------------------------------------------------------------------------
(* Termination *)

\* the request in flight has returned its result
Returned == inflight # <<>> /\ inflight[1].pc = "done"

\* C30 as stated: every ProcessClaim request eventually reaches the Decision
\* Aggregator and returns a result (decision, reasoning, payout), including
\* when every external LLM call fails or times out and when the member is
\* unknown or the document is empty.
C30_EveryRequestReachesAggregator ==
    (inflight # <<>> /\ inflight[1].pc # "done")
      ~> (Returned /\ Contains(inflight[1].st.nodes, "decision"))

\* C30, amended: every ProcessClaim request eventually returns a result; a
\* request that is not a follow-up reaches the Decision Aggregator first, a
\* follow-up is answered from the session without entering the pipeline.
C30_EveryRequestReturns ==
    /\ RunAt(1, "setup_node")
         ~> (/\ Returned
             /\ last.op = "process" /\ last.decision # ""
             /\ Contains(inflight[1].st.nodes, "decision"))
    /\ RunAt(1, "handle_follow_up")
         ~> (Returned /\ last.op = "follow_up")

\* a request for an unknown member with no document, the LLM unavailable,
\* has been decided and has returned
C30_Witness ==
    /\ Returned
    /\ inflight[1].st.member_id = UnknownMember
    /\ ~inflight[1].st.extracted_doc.present
    /\ inflight[1].llm = "none"
    /\ Contains(inflight[1].st.nodes, "decision")
    /\ last.decision = "REJECTED"

-----------------------------------------------------------------------------
(* Trace order *)

IsPrefix(a, b) == Len(a) <= Len(b) /\ SubSeq(b, 1, Len(a)) = a

\* C31: in the trace of every pipeline run, all trace entries of the Intake
\* Validator come before all trace entries of the Eligibility Validator,
\* whichever of the two concurrent tasks finishes first, and entries already
\* in the trace are never reordered or removed by later stages.
C31_IntakeBeforeEligibility ==
    /\ [](inflight # <<>> /\ inflight[1].kind = "trace"
            => LET t == inflight[1].agent_trace
               IN \A i, j \in 1..Len(t) :
                     t[i].by = "intake" /\ t[j].by = "eligibility" => i < j)
    /\ [][inflight # <<>> /\ inflight' # <<>>
            /\ inflight[1].kind = "trace" /\ inflight[1].pc # "done"
            => IsPrefix(inflight[1].agent_trace, inflight'[1].agent_trace)]_vars

\* the Eligibility task finished first, the merged trace went through the
\* later stages
C31_Witness ==
    /\ TraceAt("done")
    /\ inflight[1].first = "eligibility"
    /\ \E i, j \in 1..Len(inflight[1].agent_trace) :
          /\ inflight[1].agent_trace[i].by = "intake"
          /\ inflight[1].agent_trace[j].by = "eligibility"
    /\ inflight[1].agent_trace[Len(inflight[1].agent_trace)].by = "decision"

-----------------------------------------------------------------------------
(* Audit fields of the record *)

\* C32: for a customer-submitted claim on which a processor decided APPROVED,
\* PARTIALLY APPROVED or REJECTED, the ClaimRecord keeps that decision as
\* ai_recommendation while its status is PENDING: the role-based override to
\* PENDING never changes ai_recommendation or the recorded ai_payout_amount.
C32_RecordKeepsRecommendation ==
    [][(/\ RunAt(1, "record")
        /\ UserRole(inflight[1].st.role) = "customer"
        /\ Contains(inflight[1].st.nodes, "principal")
        /\ inflight[1].st.decision
             \in {"APPROVED", "PARTIALLY APPROVED", "REJECTED"}
        /\ Len(claims_history') = Len(claims_history) + 1)
       => LET rec == claims_history'[Len(claims_history')]
          IN /\ rec.status = "PENDING"
             /\ rec.ai_recommendation = inflight[1].st.decision
             /\ rec.ai_payout_amount = inflight[1].st.payout_amount]_vars

\* a customer's therapy claim, rejected by the processor, is on record as
\* PENDING with the recommendation
C32_RejectedWitnessed ==
    /\ Returned
    /\ last.op = "process" /\ last.role = "customer"
    /\ Contains(last.nodes, "outpatient")
    /\ claims_history # <<>>
    /\ claims_history[Len(claims_history)].status = "PENDING"
    /\ claims_history[Len(claims_history)].ai_recommendation = "REJECTED"

\* a customer's hospital stay, partially approved by the processor, is on
\* record as PENDING with the recommendation and its payout
C32_Witness ==
    /\ Returned
    /\ last.op = "process" /\ last.role = "customer"
    /\ claims_history # <<>>
    /\ claims_history[Len(claims_history)].status = "PENDING"
    /\ claims_history[Len(claims_history)].ai_recommendation
         = "PARTIALLY APPROVED"
    /\ claims_history[Len(claims_history)].ai_payout_amount > 0

-----------------------------------------------------------------------------
(* Specification: questions put to a session that holds a claim *)

\* "where should my sister send her dentist bill from last tuesday morning?"
MsgLongBareQuestion ==
    Phrased(MkMsg(TDental, 0, 0, FALSE, FALSE), TRUE, TRUE, 12, 0)

\* messages on both sides of the word limit and of the signal threshold
QuestionMessages ==
    { Phrased(MkMsg("", 0, 0, FALSE, FALSE), q, nc, w, sc) :
        q \in BOOLEAN, nc \in BOOLEAN,
        w \in {ShortMessageWords, ShortMessageWords + 1},
        sc \in {FollowUpSignals - 1, FollowUpSignals} }
    \cup {MsgLongBareQuestion}

QuestionRequests ==
    { Req(EmptyDoc, msg) : msg \in QuestionMessages }
    \cup { Req(DocGP, MsgPlain) }

InitQuestions ==
    /\ usage \in {Usage1002, Usage1004}
    /\ claims_history = <<>>
    /\ clock = 0
    /\ last = NoCall
    /\ session = EmptySession
    /\ activity_log = <<>>
    /\ inflight = <<>>

Ask ==
    /\ session.appended < 2 * MaxTurns
    /\ \E r \in QuestionRequests, role \in {"customer", "developer"} :
           process_claim(KnownMember, r.msg, r.doc, role, "none", 1, 0)

NextQuestions == Ask

SpecQuestions == InitQuestions /\ [][NextQuestions]_vars

-----------------------------------------------------------------------------
(* C33: questions in a session with context *)

\* a step of the session in which the member asked msg
Asks(msg) ==
    \E role \in {"customer", "developer"} :
        process_claim(KnownMember, msg, EmptyDoc, role, "none", 1, 0)

\* C33: in a session with prior messages and a prior claim context, every
\* message phrased as a question (a question starter or a final "?") is
\* classified FOLLOW_UP, whatever its length and whatever else it contains.
C33_QuestionIsFollowUp ==
    [][HasPriorContext
        => \A msg \in QuestionMessages :
              msg.question
                => /\ is_follow_up(msg, session)
                   /\ Asks(msg) => last'.op = "follow_up"]_vars

\* what the code does hold to: a question is never turned away by the
\* new-claim patterns, so one of at most 8 words, or with 2 follow-up signals,
\* is a follow-up
C33_ShortOrSignalledQuestionIsFollowUp ==
    [][HasPriorContext
        => \A msg \in QuestionMessages :
              /\ msg.question
              /\ msg.words <= ShortMessageWords \/ msg.score >= FollowUpSignals
              => /\ is_follow_up(msg, session)
                 /\ Asks(msg) => last'.op = "follow_up"]_vars

-----------------------------------------------------------------------------
(* SpecOverturn: claims the pipeline approves or rejects, and their reviews *)

OverturnSeeds == {Usage1003, Usage1004}

OverturnDocs == {DocGP, DocReiki}

InitOverturn ==
    /\ usage \in OverturnSeeds
    /\ claims_history = <<>>
    /\ clock = 0
    /\ last = NoCall
    /\ session = EmptySession
    /\ activity_log = <<>>
    /\ inflight = <<>>

SubmitOverturn ==
    \E doc \in OverturnDocs, role \in {"customer", "developer"},
       now \in 0..MaxClock :
        ProcessClaim(KnownMember, MsgPlain, doc, role, "none", 1, now)

NextOverturn == SubmitOverturn \/ Review

SpecOverturn == InitOverturn /\ [][NextOverturn]_vars

-----------------------------------------------------------------------------
(* C34: the ledger and the approved claims *)

\* the ledger deltas a claim without hospital days implies: one use of its
\* category counter and its receipt
ImpliedUpdates(claim) ==
    (IF UsageField(claim.treatment_type) # ""
     THEN <<Upd(UsageField(claim.treatment_type), 1)>> ELSE <<>>)
    \o (IF claim.claimed_amount > 0
        THEN <<Upd("q_accumulated_receipts", claim.claimed_amount)>>
        ELSE <<>>)

\* the ledger u after the implied deltas of the claims history[i], i in S,
\* each applied once
RECURSIVE WithClaimsApplied(_, _, _)
WithClaimsApplied(u, history, S) ==
    IF S = {} THEN u
    ELSE LET i == CHOOSE j \in S : TRUE
         IN WithClaimsApplied(ApplyUpdates(u, ImpliedUpdates(history[i])),
                              history, S \ {i})

\* the ledger is the seeded ledger plus, exactly once, the deltas of a set
\* of claims that includes every claim of the set Must
LedgerCovers(Must) ==
    \E u0 \in OverturnSeeds :
      \E S \in SUBSET (1..Len(claims_history)) :
          /\ Must \subseteq S
          /\ usage = WithClaimsApplied(u0, claims_history, S)

\* C34: whenever a claim's status in the history is APPROVED or PARTIALLY
\* APPROVED, set by the pipeline or by a reviewer, its ledger deltas have been
\* applied exactly once; a claim the AI rejected and a reviewer approves
\* consumes its benefit counter too.
C34_ApprovedClaimsAreInLedger ==
    LedgerCovers({ i \in 1..Len(claims_history) :
                     claims_history[i].status \in Approving })

\* the same for the claims the AI itself approved
C34_AIApprovedClaimsAreInLedger ==
    LedgerCovers({ i \in 1..Len(claims_history) :
                     /\ claims_history[i].status \in Approving
                     /\ claims_history[i].ai_recommendation \in Approving })

-----------------------------------------------------------------------------
(* SpecStays: documents with hospital days, of the in-patient type or not *)

\* a consultant's receipt that also states three days in hospital
DocConsultantStay == [MkDoc(TConsultant, D2, "Beacon Hospital", 60000)
                        EXCEPT !.hospital_days = 3]

StayDocs == {DocHospitalStay, DocConsultantStay}

InitStays ==
    /\ usage \in {Usage1003, Usage1004}
    /\ claims_history = <<>>
    /\ clock = 0
    /\ last = NoCall
    /\ session = EmptySession
    /\ activity_log = <<>>
    /\ inflight = <<>>

SubmitStay ==
    \E doc \in StayDocs, role \in {"customer", "developer"},
       now \in 0..MaxClock :
        ProcessClaim(KnownMember, MsgPlain, doc, role, "none", 1, now)

NextStays == SubmitStay \/ Review

SpecStays == InitStays /\ [][NextStays]_vars

-----------------------------------------------------------------------------
(* C35: days approved by the Hospital Processor and the ledger *)

\* the days the Hospital Processor approved, from the payout it computed
DaysPaid(payout) == payout \div HospitalRate

\* the claim was processed by the Hospital Processor's in-patient calculator
IsStay(claim) ==
    \E doc \in StayDocs :
        /\ claim.treatment_type = doc.treatment_type
        /\ claim.treatment_date = doc.treatment_date
        /\ claim.practitioner_name = doc.practitioner_name
        /\ claim.claimed_amount = doc.total_cost

\* a pipeline run that applies the ledger effects of an approved stay at once
StayAppliedByRun ==
    /\ last'.op = "process"
    /\ last'.branch = "In-Patient"
    /\ last'.ai_decision \in Approving
    /\ last'.applied # <<>>

\* a review that applies the ledger effects of a held, approved stay
StayAppliedByReview ==
    /\ last'.op = "review"
    /\ last'.found
    /\ last'.applied # <<>>
    /\ IsStay(Reviewed(last'.claim_id))
    /\ Reviewed(last'.claim_id).ai_recommendation \in Approving

\* C35: whenever the Hospital Processor approves n > 0 days for a claim and
\* the claim's ledger effects are applied, by the run itself or by a review,
\* hospital_days_count increases by exactly n, whatever the treatment type of
\* the document is.
C35_ApprovedDaysReachLedger ==
    [][/\ StayAppliedByRun
          => usage'.hospital_days_count
               = usage.hospital_days_count + DaysPaid(last'.payout_amount)
       /\ StayAppliedByReview
          => usage'.hospital_days_count
               = usage.hospital_days_count
                 + DaysPaid(Reviewed(last'.claim_id).ai_payout_amount)]_vars

\* the same for documents of the in-patient type
C35_InPatientDaysReachLedger ==
    [][/\ StayAppliedByRun /\ last'.doc.treatment_type = THospital
          => usage'.hospital_days_count
               = usage.hospital_days_count + DaysPaid(last'.payout_amount)
       /\ StayAppliedByReview
          /\ Reviewed(last'.claim_id).treatment_type = THospital
          => usage'.hospital_days_count
               = usage.hospital_days_count
                 + DaysPaid(Reviewed(last'.claim_id).ai_payout_amount)]_vars

-----------------------------------------------------------------------------
(* SpecKeywords: outpatient claims at an annual maximum, however routed *)

\* "this was during my admission"
MsgAdmission == Phrased(MkMsg("", 0, 0, FALSE, TRUE), FALSE, FALSE, 5, 1)

\* an outpatient receipt, plain or with a number of hospital days on it
KeywordDocs ==
    UNION { { MkDoc(tt, D1, "Physiotherapy Plus", 15000),
              [MkDoc(tt, D1, "Physiotherapy Plus", 15000)
                 EXCEPT !.hospital_days = 1] } : tt \in OutpatientTypes }

InitKeywords ==
    /\ usage \in { NearLimit(tt, AnnualMax(tt)) : tt \in OutpatientTypes }
    /\ claims_history = <<>>
    /\ clock = 0
    /\ last = NoCall
    /\ session = EmptySession
    /\ activity_log = <<>>
    /\ inflight = <<>>

SubmitWithKeywords ==
    /\ Len(claims_history) < MaxClaims
    /\ \E doc \in KeywordDocs, msg \in {MsgPlain, MsgAccident, MsgAdmission},
          role \in {"customer", "developer"} :
           ProcessClaim(KnownMember, msg, doc, role, "none", 1, clock)

NextKeywords == SubmitWithKeywords

SpecKeywords == InitKeywords /\ [][NextKeywords]_vars

-----------------------------------------------------------------------------
(* C36: the annual maximum and the processor *)

\* the step is a run for a document whose category counter stood at its
\* annual maximum
RunAtAnnualMax ==
    /\ last'.op = "process"
    /\ last'.doc.treatment_type \in OutpatientTypes
    /\ usage[UsageField(last'.doc.treatment_type)]
         >= AnnualMax(last'.doc.treatment_type)

\* C36: a claim of an outpatient category whose counter is already at its
\* annual maximum never receives the AI decision APPROVED, whichever
\* processor the router selects for it.
C36_NoApprovalAtAnnualMax ==
    [][RunAtAnnualMax => last'.ai_decision # "APPROVED"]_vars

\* the same for the runs the router sends to the outpatient processor
C36_OutpatientProcessorHoldsMax ==
    [][RunAtAnnualMax /\ Contains(last'.nodes, "outpatient")
         => last'.ai_decision # "APPROVED"]_vars

-----------------------------------------------------------------------------
(* C37: claim ids *)

\* C37: claim ids are unique within a member's claim history after any
\* sequence of pipeline runs, two runs completing within the same clock
\* second included, so that a review naming a claim id reads, applies and
\* clears the deferred updates of exactly that claim.
C37_ClaimIdsUnique ==
    \A i, j \in 1..Len(claims_history) :
        i # j => claims_history[i].claim_id # claims_history[j].claim_id

-----------------------------------------------------------------------------
(* SpecUndated: receipts whose treatment date is missing or unreadable *)

\* a receipt dated "15/04/2025", which is not YYYY-MM-DD
DocBadDate == MkDoc(TGP, BadDate, "Dr. John Doe", 15000)

UndatedDocs == {DocGP, DocNoDate, DocBadDate, DocExpired}

InitUndated ==
    /\ usage \in {Usage1002, Usage1003, Usage1004}
    /\ claims_history = <<>>
    /\ clock = 0
    /\ last = NoCall
    /\ session = EmptySession
    /\ activity_log = <<>>
    /\ inflight = <<>>

SubmitUndated ==
    \E doc \in UndatedDocs, role \in {"customer", "developer"}, tod \in {0, 1},
       now \in 0..MaxClock :
        ProcessClaim(KnownMember, MsgPlain, doc, role, "none", tod, now)

NextUndated == SubmitUndated

SpecUndated == InitUndated /\ [][NextUndated]_vars

-----------------------------------------------------------------------------
(* C38: date checks that cannot be evaluated *)

\* C38: a claim whose treatment date (or policy start date) is missing or
\* malformed does not pass the waiting-period and submission-deadline checks:
\* the pipeline never approves it on the strength of a date check that could
\* not be evaluated.
C38_UndatedClaimNotApproved ==
    [][(/\ last'.op = "process"
        /\ last'.doc.treatment_date \in {NoDate, BadDate})
         => last'.ai_decision \notin Approving]_vars

\* a readable date past the deadline is rejected by the same runs
C38_ExpiredClaimRejected ==
    [][(last'.op = "process" /\ last'.doc = DocExpired)
         => /\ last'.ai_decision = "REJECTED"
            /\ last'.eligibility_failure = "deadline"]_vars

-----------------------------------------------------------------------------
(* SpecTwoPaths: one claim, submitted by a customer or by a developer, and
   its reviews *)

PathSeeds == {Usage1002, Usage1003, Usage1004}

PathDocs == {DocGP, DocHospital, DocHospitalStay, DocConsultantStay, DocReiki}

InitTwoPaths ==
    /\ usage \in PathSeeds
    /\ claims_history = <<>>
    /\ clock = 0
    /\ last = NoCall
    /\ session = EmptySession
    /\ activity_log = <<>>
    /\ inflight = <<>>

SubmitOnce ==
    /\ claims_history = <<>>
    /\ last.op = "none"
    /\ \E doc \in PathDocs, role \in {"customer", "developer"} :
          ProcessClaim(KnownMember, MsgPlain, doc, role, "none", 1, 0)

ReviewIt ==
    /\ claims_history # <<>>
    /\ \E decision \in ReviewDecisions : review_claim(0, decision)

NextTwoPaths == SubmitOnce \/ ReviewIt

SpecTwoPaths == InitTwoPaths /\ [][NextTwoPaths]_vars

-----------------------------------------------------------------------------
(* C39: deferral changes when the deltas are applied, not which *)

\* the seeded ledger the behaviour started from; no document of PathDocs
\* touches the prescription or the scan counter, which tell the seeds apart
StartedFrom(u0) ==
    /\ usage.prescription_count = u0.prescription_count
    /\ usage.scan_count = u0.scan_count

\* the document a claim record was written for
IsRecordOf(claim, doc) ==
    /\ claim.treatment_type = doc.treatment_type
    /\ claim.treatment_date = doc.treatment_date
    /\ claim.practitioner_name = doc.practitioner_name
    /\ claim.claimed_amount = doc.total_cost

\* the result of a single run for doc by a non-customer on the ledger u0
SingleRun(u0, doc) ==
    decision_node(RunToDecision(InitialState(KnownMember, MsgPlain, doc,
                                             "developer"),
                                u0, <<>>, "none", 1),
                  u0, <<>>, 0)

\* the only claim of the history is approved by the AI and by a reviewer
ApprovedByReview ==
    /\ Len(claims_history) = 1
    /\ claims_history[1].reviewed
    /\ claims_history[1].status \in Approving
    /\ claims_history[1].ai_recommendation \in Approving

\* C39: for the same initial member state and the same claim with AI decision
\* APPROVED or PARTIALLY APPROVED, the ledger after a customer submission
\* followed by a reviewer's approval equals the ledger after a single
\* submission by a non-customer role.
C39_DeferralKeepsDeltas ==
    ApprovedByReview
      => \A u0 \in PathSeeds, doc \in PathDocs :
            StartedFrom(u0) /\ IsRecordOf(claims_history[1], doc)
              => /\ SingleRun(u0, doc).ai_decision
                      = claims_history[1].ai_recommendation
                 /\ usage = SingleRun(u0, doc).usage

\* a reviewer approved the customer's held stay: two of the five days asked
\* for were approved and the review wrote them to the ledger
C39_Witness ==
    /\ ApprovedByReview
    /\ last.op = "review"
    /\ last.applied # <<>>
    /\ IsRecordOf(claims_history[1], DocHospital)
    /\ claims_history[1].ai_recommendation = "PARTIALLY APPROVED"
    /\ usage.hospital_days_count = MaxHospitalDays

-----------------------------------------------------------------------------
(* The streaming variant *)

\* one yielded update: the fields read from the node's output with .get,
\* so a key the node did not return shows as "", 0 or []
StreamEvent(node_name, decision, payout_amount, flags, needs_info) ==
    [node_name |-> node_name, decision |-> decision,
     payout_amount |-> payout_amount, flags |-> flags,
     needs_info |-> needs_info]

\* the part of a list that a node's output added to it
Added(before, after) == SubSeq(after, Len(before) + 1, Len(after))

\* claim_graph.astream(initial_state, stream_mode="updates"): the output of
\* each node as it completes
StreamEvents(st0, store_usage, history, llm, tod, now) ==
    LET ByDecision(s) ==
            LET d == decision_node(s, store_usage, history, now)
            IN StreamEvent("decision_node", d.decision, d.payout_amount,
                           <<>>, <<>>)
        s1 == setup_node(st0, store_usage)
        e1 == StreamEvent("setup_node", s1.decision, s1.payout_amount,
                          <<>>, <<>>)
        s2 == parallel_validation_node(s1, history, tod)
        e2 == StreamEvent("parallel_validation_node", s2.decision,
                          s2.payout_amount, Added(s1.flags, s2.flags),
                          Added(s1.needs_info, s2.needs_info))
        s3 == principal_node(s2, llm)
        e3 == StreamEvent("principal_node", "", 0, <<>>, <<>>)
        s4 == processor_node(s3, history)
        e4 == StreamEvent(route_after_principal(s3), s4.decision,
                          s4.payout_amount, Added(s3.flags, s4.flags),
                          Added(s3.needs_info, s4.needs_info))
    IN IF route_after_setup(s1) = "decision_node"
       THEN <<e1, ByDecision(s1)>>
       ELSE IF route_after_parallel_validation(s2) = "decision_node"
       THEN <<e1, e2, ByDecision(s2)>>
       ELSE <<e1, e2, e3, e4, ByDecision(s4)>>

\* process_claim_streaming with the session_id of the followed session: the
\* same gate, graph and store writes as process_claim; what the caller gets
\* is the list of yielded updates
process_claim_streaming(member_id, msg, doc, role, llm, tod, now) ==
    /\ IF is_follow_up(msg, session)
       THEN LET ctx == session.last_claim_context
            IN /\ session' = add_message(add_message(session, "user", "", 0),
                                         "assistant", ctx.decision,
                                         ctx.payout_amount)
               /\ last' = [NoCall EXCEPT
                             !.op = "stream", !.member_id = member_id,
                             !.result = <<StreamEvent("conversation_agent",
                                                      ctx.decision,
                                                      ctx.payout_amount,
                                                      ctx.flags, <<>>)>>]
               /\ UNCHANGED <<usage, claims_history, clock>>
       ELSE /\ Len(claims_history) < MaxClaims
            /\ now >= clock
            /\ LET st0 == InitialState(member_id, msg, doc, role)
                   d == decision_node(RunToDecision(st0, usage, claims_history,
                                                    llm, tod),
                                      usage, claims_history, now)
               IN /\ usage' = d.usage
                  /\ claims_history' = d.history
                  /\ session' = SaveRun(session, member_id,
                                        [decision |-> d.decision,
                                         payout_amount |-> d.payout_amount,
                                         doc |-> d.extracted_doc,
                                         flags |-> d.flags])
                  /\ last' = [NoCall EXCEPT
                                !.op = "stream", !.member_id = member_id,
                                !.role = d.role, !.doc = d.extracted_doc,
                                !.nodes = d.nodes, !.recorded = d.recorded,
                                !.result = StreamEvents(st0, usage,
                                                        claims_history, llm,
                                                        tod, now)]
            /\ clock' = now
    /\ UNCHANGED <<activity_log, inflight>>

-----------------------------------------------------------------------------
(* SpecStreaming: the requests of one session over the WebSocket *)

StreamRequests ==
    { Req(DocGP, MsgPlain), Req(EmptyDoc, MsgWhy), Req(DocUnsigned, MsgPlain),
      Req(DocHospitalStay, MsgPlain), Req(DocGP, MsgLongClaim) }

InitStreaming ==
    /\ usage \in {Usage1002, Usage1004}
    /\ claims_history = <<>>
    /\ clock = 0
    /\ last = NoCall
    /\ session = EmptySession
    /\ activity_log = <<>>
    /\ inflight = <<>>

Stream ==
    /\ session.appended < 2 * MaxTurns
    /\ \E r \in StreamRequests, member_id \in {KnownMember, UnknownMember},
          role \in {"customer", "developer"}, now \in 0..MaxClock :
           process_claim_streaming(member_id, r.msg, r.doc, role, "none", 1,
                                   now)

NextStreaming == Stream

SpecStreaming == InitStreaming /\ [][NextStreaming]_vars

-----------------------------------------------------------------------------
(* C40: the streamed events and the result of ProcessClaim *)

\* what process_claim returns for the same input in the same state
ProcessClaimResult(member_id, msg, doc, role, now) ==
    IF is_follow_up(msg, session)
    THEN [decision |-> session.last_claim_context.decision,
          payout_amount |-> session.last_claim_context.payout_amount,
          flags |-> session.last_claim_context.flags,
          stages |-> 1]
    ELSE LET d == decision_node(
                     RunToDecision(InitialState(member_id, msg, doc, role),
                                   usage, claims_history, "none", 1),
                     usage, claims_history, now)
         IN [decision |-> d.decision, payout_amount |-> d.payout_amount,
             flags |-> d.flags, stages |-> Len(d.nodes)]

\* the place of a node in the graph
StageIndex(node_name) ==
    CASE node_name \in {"setup_node", "conversation_agent"} -> 1
      [] node_name = "parallel_validation_node" -> 2
      [] node_name = "principal_node" -> 3
      [] node_name \in ProcessorNodes -> 4
      [] OTHER -> 5

\* one event per completed stage, in stage order
InStageOrder(events, stages) ==
    /\ Len(events) = stages
    /\ \A i \in 1..(Len(events) - 1) :
          StageIndex(events[i].node_name) < StageIndex(events[i + 1].node_name)

\* a step in which the streaming variant served the request
Streams(r, member_id, role, now) ==
    process_claim_streaming(member_id, r.msg, r.doc, role, "none", 1, now)

\* C40: for the same input and the same initial store and session state the
\* streaming variant emits one event per completed stage in stage order, and
\* its last event carries the same decision, payout and flags as the result
\* ProcessClaim returns.
C40_LastEventIsResult ==
    [][\A r \in StreamRequests, member_id \in {KnownMember, UnknownMember},
          role \in {"customer", "developer"}, now \in 0..MaxClock :
         Streams(r, member_id, role, now)
           => LET res == ProcessClaimResult(member_id, r.msg, r.doc, role, now)
                  events == last'.result
                  final == events[Len(events)]
              IN /\ InStageOrder(events, res.stages)
                 /\ final.decision = res.decision
                 /\ final.payout_amount = res.payout_amount
                 /\ final.flags = res.flags]_vars

\* the same without the flags
C40_LastEventHasDecisionAndPayout ==
    [][\A r \in StreamRequests, member_id \in {KnownMember, UnknownMember},
          role \in {"customer", "developer"}, now \in 0..MaxClock :
         Streams(r, member_id, role, now)
           => LET res == ProcessClaimResult(member_id, r.msg, r.doc, role, now)
                  events == last'.result
                  final == events[Len(events)]
              IN /\ InStageOrder(events, res.stages)
                 /\ final.decision = res.decision
                 /\ final.payout_amount = res.payout_amount]_vars

====
